---- MODULE Spec2Model ----
(***************************************************************************)
(* Museum Explorer: the API access layer of script.js / artwork-detail.js. *)
(*                                                                         *)
(* makeApiCall(url, retryCount) wraps one fetch with rate-limit detection  *)
(* (HTTP 429, Retry-After), exponential backoff and retry.  The three      *)
(* module-level variables apiCallCount, rateLimitResetTime, isRateLimited  *)
(* are shared by every call in flight.                                     *)
(*                                                                         *)
(* JavaScript runs each stretch of code between two awaits atomically, so  *)
(* one action of the model is one such stretch.  `return makeApiCall(url,  *)
(* retryCount + 1)` inside the try block is not awaited: a rejection of    *)
(* the inner call is not seen by the outer catch, so a logical request is  *)
(* one chain of attempts with a growing retryCount.                        *)
(***************************************************************************)
EXTENDS Integers, Sequences, FiniteSets, TLC

\* ------------------------------------------------------- program constants
maxRetries == 3
baseDelay == 1000
batchSize == 3
interBatchDelay == 500
curatedIds ==
    << 436532, 459123, 437853, 438817, 436105, 437984,
       438821, 436947, 459080, 437329, 438013, 436535 >>

\* ------------------------------------------------------------------ bounds
\* the makeApiCall invocations that may overlap
Reqs == {1, 2}
\* fetch calls issued in one run, over all requests (apiCallCount is capped here)
MaxCalls == 5
\* length of the longest ID list handed to loadArtworkDetails
MaxIds == 12
\* browse and search requests the user starts on one page
MaxRequests == 3
\* one step of network latency, in ms
TickMs == baseDelay
\* the clock at page load, in ms
StartTime == 10 * baseDelay
\* network latency moves the clock up to here; timers always run to their end
MaxTime == StartTime + TickMs

\* --------------------------------------------------- JavaScript values
\* A JavaScript number-or-null: null, NaN, or a finite integer.
Null == [tag |-> "null"]
NaN == [tag |-> "NaN"]
Num(n) == [tag |-> "num", v |-> n]
IsNum(x) == x.tag = "num"

\* ToBoolean: null, NaN and 0 are falsy.
Truthy(x) == IsNum(x) /\ x.v # 0

\* a + b and a * b on numbers; NaN is contagious.
JsAdd(a, b) == IF IsNum(a) /\ IsNum(b) THEN Num(a.v + b.v) ELSE NaN
JsMul(a, b) == IF IsNum(a) /\ IsNum(b) THEN Num(a.v * b.v) ELSE NaN
JsSub(a, b) == IF IsNum(a) /\ IsNum(b) THEN Num(a.v - b.v) ELSE NaN
\* a < b: false whenever an operand is NaN (null does not occur here)
JsLt(a, b) == IsNum(a) /\ IsNum(b) /\ a.v < b.v

\* Math.pow(2, n) for a small natural n
RECURSIVE Pow2(_)
Pow2(n) == IF n = 0 THEN 1 ELSE 2 * Pow2(n - 1)

\* ------------------------------------------------------------- parseInt
\* Header values are strings, modelled as sequences of one-character strings.
Digits == {"0", "1", "2", "3", "4", "5", "6", "7", "8", "9"}
DigitVal(c) ==
    CASE c = "0" -> 0 [] c = "1" -> 1 [] c = "2" -> 2 [] c = "3" -> 3
      [] c = "4" -> 4 [] c = "5" -> 5 [] c = "6" -> 6 [] c = "7" -> 7
      [] c = "8" -> 8 [] c = "9" -> 9

RECURSIVE SkipSpaces(_)
SkipSpaces(s) == IF s # <<>> /\ Head(s) = " " THEN SkipSpaces(Tail(s)) ELSE s

\* value of the longest prefix of digits of s, given the value acc read so far
RECURSIVE ReadDigits(_, _)
ReadDigits(s, acc) ==
    IF s # <<>> /\ Head(s) \in Digits
    THEN ReadDigits(Tail(s), 10 * acc + DigitVal(Head(s)))
    ELSE acc

\* parseInt(string): leading white space, an optional sign, then the longest
\* run of decimal digits; NaN when there is no digit.
parseInt(str) ==
    LET s == SkipSpaces(str)
        neg == s # <<>> /\ Head(s) = "-"
        body == IF s # <<>> /\ Head(s) \in {"-", "+"} THEN Tail(s) ELSE s
    IN  IF body = <<>> \/ Head(body) \notin Digits
        THEN NaN
        ELSE Num((IF neg THEN -1 ELSE 1) * ReadDigits(body, 0))

\* ------------------------------------------------------------- setTimeout
\* setTimeout(f, d) runs f once d ms have passed; a NaN or negative d is 0.
TimerDelay(d) == IF IsNum(d) /\ d.v > 0 THEN d.v ELSE 0

\* ------------------------------------------------------- the remote server
\* headers.get(name) gives null for an absent header, else its string value
NoHeader == <<"null">>
RetryAfterValues ==
    { NoHeader,
      <<"2">>,
      <<"0">>,
      <<"-", "1">>,
      <<"W", "e", "d">> }

\* values of the X-RateLimit-Remaining header of a response
QuotaValues ==
    { NoHeader,
      <<"9">>,
      <<"1", "0">>,
      <<"a">> }

\* the error responses of the server: status and statusText (as words)
ErrorResponses ==
    { <<404, <<"Not", "Found">> >>,
      <<500, <<"upstream", "fetch", "failed">> >> }

\* what fetch(url) settles with: a response or a thrown TypeError
NoResp == [kind |-> "none"]
Resp429(h) == [kind |-> "response", status |-> 429, retryAfter |-> h]
RespErr(s, txt) ==
    [kind |-> "response", status |-> s, statusText |-> txt, remaining |-> NoHeader]
RespOk == [kind |-> "response", status |-> 200, remaining |-> NoHeader]
FetchThrew == [kind |-> "threw"]

\* -------------------------------------------------------------- errors
\* An Error object: its name, and its message as a sequence of words.
NoError == [name |-> "none", message |-> <<>>]
TypeErrorFailedToFetch == [name |-> "TypeError", message |-> <<"Failed", "to", "fetch">>]
RateLimitError == [name |-> "Error", message |-> <<"Rate limited", "Maximum retries exceeded">>]
StatusStr(s) == CASE s = 404 -> "404" [] s = 500 -> "500" [] s = 503 -> "503" [] s = 429 -> "429"
HttpError(s, txt) == [name |-> "Error", message |-> <<"HTTP", StatusStr(s)>> \o txt]

\* message.includes(pat), on words
Includes(msg, pat) ==
    \E i \in 0 .. (Len(msg) - Len(pat)) : SubSeq(msg, i + 1, i + Len(pat)) = pat

\* ------------------------------------------------------------------ state
VARIABLES
    now,                 \* Date.now(), in ms
    apiCallCount,        \* script.js:16
    rateLimitResetTime,  \* script.js:17, a JavaScript number or null
    isRateLimited,       \* script.js:18
    batch,               \* the requests the caller starts (one, or a chunk)
    pc,                  \* where each makeApiCall chain is suspended
    retryCount,          \* the retryCount argument of the current attempt
    wake,                \* when the pending setTimeout of the request fires
    err,                 \* the error the request was rejected with
    lastResp,            \* what the fetch of the current attempt settled with
    lastRespAt,          \* the clock when that fetch settled
    gets,                \* number of fetch calls issued by the request
    waits,               \* number of timers the request set, by kind
    objectIds,           \* script.js:202, the argument of loadArtworkDetails
    loader,              \* where loadArtworkDetails is suspended
    chunkStart,          \* script.js:207, the loop variable i
    batchPromises,       \* script.js:209, the promise of each ID of the input
    body,                \* what response.json() of each ID settled with
    artworks,            \* script.js:203
    delayWake,           \* when the inter-batch setTimeout fires
    chunksRun,           \* number of chunks started
    delaysRun,           \* number of inter-batch delays started
    settledAt,           \* the clock when the previous chunk settled
    op,                  \* the top-level operation that was started
    page,                \* where that operation is suspended
    data,                \* script.js:147 / :178, the parsed listing or search body
    curatedCalls,        \* number of calls of loadCuratedArtworks
    dom,                 \* the gallery: skeletons, cards, messages
    currentArtworks,     \* script.js:10
    requests,            \* the browse and search requests of the user, in start order
    detailView           \* artwork-detail.js: the panels and what they show

tracker == <<apiCallCount, rateLimitResetTime, isRateLimited>>
loaderVars == <<objectIds, loader, chunkStart, batchPromises, body, artworks, delayWake,
                chunksRun, delaysRun, settledAt>>
\* what the user's own actions add to the page
sessionVars == <<requests, detailView>>
pageVars == <<op, page, data, curatedCalls, dom, currentArtworks, sessionVars>>
callerVars == <<loaderVars, pageVars>>
vars == <<now, apiCallCount, rateLimitResetTime, isRateLimited, batch, pc, retryCount,
          wake, err, lastResp, lastRespAt, gets, waits, callerVars>>

\* loadArtworkDetails has not been called.
LoaderNotCalled ==
    /\ objectIds = <<>>
    /\ loader = "idle"
    /\ chunkStart = 0
    /\ batchPromises = <<>>
    /\ body = <<>>
    /\ artworks = <<>>
    /\ delayWake = 0
    /\ chunksRun = 0
    /\ delaysRun = 0
    /\ settledAt = 0

\* The gallery as index.html holds it before any operation has run: the
\* skeleton cards are displayed, there is no card and no message.
\* No warning banner is displayed and no low-quota warning was logged.
EmptyGallery ==
    [skeletons |-> TRUE, cards |-> <<>>, noResults |-> 0, errors |-> <<>>,
     apiWarning |-> Null, quotaWarnings |-> 0]

\* artwork-detail.js:489-493: the detail page before its artwork is loaded
DetailPageLoading ==
    [loading |-> TRUE, detail |-> FALSE, error |-> FALSE, message |-> "",
     artwork |-> Null, relatedShown |-> TRUE, related |-> <<>>]

\* No operation of the page has been started.
PageNotLoaded ==
    /\ op = "none"
    /\ page = "idle"
    /\ data = [tag |-> "none"]
    /\ curatedCalls = 0
    /\ dom = EmptyGallery
    /\ currentArtworks = <<>>
    /\ requests = <<>>
    /\ detailView = DetailPageLoading

Init ==
    /\ now = StartTime
    /\ apiCallCount = 0
    /\ rateLimitResetTime = Null
    /\ isRateLimited = FALSE
    /\ batch \in {{1}, Reqs}
    /\ pc = [r \in Reqs |-> "idle"]
    /\ retryCount = [r \in Reqs |-> 0]
    /\ wake = [r \in Reqs |-> 0]
    /\ err = [r \in Reqs |-> NoError]
    /\ lastResp = [r \in Reqs |-> NoResp]
    /\ lastRespAt = [r \in Reqs |-> 0]
    /\ gets = [r \in Reqs |-> 0]
    /\ waits = [r \in Reqs |-> [pre |-> 0, rate |-> 0, net |-> 0]]
    /\ LoaderNotCalled
    /\ PageNotLoaded

\* ------------------------------------------------------------ makeApiCall
\* mutants of ShouldWait: the comparison off by one, and the comparison inverted
ShouldWaitOrEqual(lim, reset, t) ==
    lim /\ Truthy(reset) /\ IsNum(reset) /\ t <= reset.v
ShouldWaitInverted(lim, reset, t) ==
    lim /\ Truthy(reset) /\ JsLt(reset, Num(t))

\* script.js:63: isRateLimited && rateLimitResetTime && Date.now() < rateLimitResetTime
ShouldWait(lim, reset, t) == lim /\ Truthy(reset) /\ JsLt(Num(t), reset)

\* mutants of ResetTimeOn429: the header ignored, and a backoff that grows linearly
ResetTimeIgnoringHeader(h, rc, t) == JsAdd(Num(t), Num(baseDelay * Pow2(rc)))
ResetTimeLinearBackoff(h, rc, t) ==
    IF h # NoHeader /\ h # <<>>
    THEN JsAdd(Num(t), JsMul(parseInt(h), Num(1000)))
    ELSE JsAdd(Num(t), Num(baseDelay * (rc + 1)))

\* script.js:81-91: the reset time a 429 with Retry-After value h sets, on the
\* attempt with retry count rc, observed at time t
ResetTimeOn429(h, rc, t) ==
    IF h # NoHeader /\ h # <<>>
    THEN JsAdd(Num(t), JsMul(parseInt(h), Num(1000)))
    ELSE JsAdd(Num(t), Num(baseDelay * Pow2(rc)))

\* mutants of CanRetry: one retry too many, and one too few
CanRetryOnceMore(rc) == rc <= maxRetries
CanRetryAlways(rc) == TRUE
CanRetryOnceLess(rc) == rc < maxRetries - 1

\* script.js:93 and :128: is there a retry left
CanRetry(rc) == rc < maxRetries

\* script.js:128: the errors the catch block retries
IsNetworkError(error) ==
    error.name = "TypeError" \/ Includes(error.message, <<"fetch">>)

\* mutant of BackoffDelay: a backoff that grows linearly
BackoffDelayLinear(rc) == baseDelay * (rc + 1)

\* script.js:130
BackoffDelay(rc) == baseDelay * Pow2(rc)

\* mutant of BeginAttempt: retries are not counted
BeginAttemptCountingFirstTry(r, rc) ==
    /\ retryCount' = [retryCount EXCEPT ![r] = rc]
    /\ lastResp' = [lastResp EXCEPT ![r] = NoResp]
    /\ lastRespAt' = [lastRespAt EXCEPT ![r] = 0]
    /\ IF ShouldWait(isRateLimited, rateLimitResetTime, now)
       THEN /\ pc' = [pc EXCEPT ![r] = "preWait"]
            /\ wake' = [wake EXCEPT ![r] =
                          now + TimerDelay(JsSub(rateLimitResetTime, Num(now)))]
            /\ waits' = [waits EXCEPT ![r].pre = @ + 1]
            /\ UNCHANGED <<apiCallCount, gets>>
       ELSE /\ apiCallCount < MaxCalls
            /\ pc' = [pc EXCEPT ![r] = "fetching"]
            /\ apiCallCount' = IF rc = 0 THEN apiCallCount + 1 ELSE apiCallCount
            /\ gets' = [gets EXCEPT ![r] = @ + 1]
            /\ wake' = [wake EXCEPT ![r] = 0]
            /\ UNCHANGED waits

\* script.js:61-73: the start of an attempt with retry count rc, up to its first
\* await: either the rate-limit wait or the fetch.  The outcome of the previous
\* attempt is forgotten.
BeginAttempt(r, rc) ==
    /\ retryCount' = [retryCount EXCEPT ![r] = rc]
    /\ lastResp' = [lastResp EXCEPT ![r] = NoResp]
    /\ lastRespAt' = [lastRespAt EXCEPT ![r] = 0]
    /\ IF ShouldWait(isRateLimited, rateLimitResetTime, now)
       THEN /\ pc' = [pc EXCEPT ![r] = "preWait"]
            /\ wake' = [wake EXCEPT ![r] =
                          now + TimerDelay(JsSub(rateLimitResetTime, Num(now)))]
            /\ waits' = [waits EXCEPT ![r].pre = @ + 1]
            /\ UNCHANGED <<apiCallCount, gets>>
       ELSE /\ apiCallCount < MaxCalls
            /\ pc' = [pc EXCEPT ![r] = "fetching"]
            /\ apiCallCount' = apiCallCount + 1
            /\ gets' = [gets EXCEPT ![r] = @ + 1]
            /\ wake' = [wake EXCEPT ![r] = 0]
            /\ UNCHANGED waits

\* script.js:127-136: the catch block of the attempt, given the error thrown
\* inside its try block
Catch(r, error) ==
    IF CanRetry(retryCount[r]) /\ IsNetworkError(error)
    THEN /\ pc' = [pc EXCEPT ![r] = "netWait"]
         /\ wake' = [wake EXCEPT ![r] = now + TimerDelay(Num(BackoffDelay(retryCount[r])))]
         /\ waits' = [waits EXCEPT ![r].net = @ + 1]
         /\ UNCHANGED err
    ELSE /\ pc' = [pc EXCEPT ![r] = "failed"]
         /\ err' = [err EXCEPT ![r] = error]
         /\ UNCHANGED <<wake, waits>>

\* The caller invokes makeApiCall(url): retryCount defaults to 0.
Call(r) ==
    /\ r \in batch
    /\ pc[r] = "idle"
    /\ BeginAttempt(r, 0)
    /\ UNCHANGED <<now, rateLimitResetTime, isRateLimited, batch, err>>
    /\ UNCHANGED callerVars

\* script.js:66-73: the rate-limit wait is over; clear the flag and fetch.
PreWaitFires(r) ==
    /\ pc[r] = "preWait"
    /\ wake[r] <= now
    /\ apiCallCount < MaxCalls
    /\ isRateLimited' = FALSE
    /\ apiCallCount' = apiCallCount + 1
    /\ gets' = [gets EXCEPT ![r] = @ + 1]
    /\ wake' = [wake EXCEPT ![r] = 0]
    /\ pc' = [pc EXCEPT ![r] = "fetching"]
    /\ UNCHANGED <<now, rateLimitResetTime, batch, retryCount, err, lastResp,
                   lastRespAt, waits>>
    /\ UNCHANGED callerVars

\* script.js:73, 127: fetch rejects with a TypeError (no connectivity).
FetchThrows(r) ==
    /\ pc[r] = "fetching"
    /\ lastResp' = [lastResp EXCEPT ![r] = FetchThrew]
    /\ lastRespAt' = [lastRespAt EXCEPT ![r] = now]
    /\ Catch(r, TypeErrorFailedToFetch)
    /\ UNCHANGED <<now, tracker, batch, retryCount, gets>>
    /\ UNCHANGED callerVars

\* script.js:76-100: the response is a 429 with Retry-After value h.
Receive429(r, h) ==
    /\ pc[r] = "fetching"
    /\ lastResp' = [lastResp EXCEPT ![r] = Resp429(h)]
    /\ lastRespAt' = [lastRespAt EXCEPT ![r] = now]
    /\ isRateLimited' = TRUE
    /\ rateLimitResetTime' = ResetTimeOn429(h, retryCount[r], now)
    /\ IF CanRetry(retryCount[r])
       THEN /\ pc' = [pc EXCEPT ![r] = "rateWait"]
            /\ wake' = [wake EXCEPT ![r] =
                          now + TimerDelay(JsSub(rateLimitResetTime', Num(now)))]
            /\ waits' = [waits EXCEPT ![r].rate = @ + 1]
            /\ UNCHANGED err
       ELSE Catch(r, RateLimitError)
    /\ UNCHANGED <<now, apiCallCount, batch, retryCount, gets>>
    /\ UNCHANGED callerVars

\* script.js:103-105, 127: the response is not ok and not a 429; the error is
\* thrown before any header of the response is read.
ReceiveHttpError(r, s, txt, remaining) ==
    /\ pc[r] = "fetching"
    /\ lastResp' = [lastResp EXCEPT ![r] = [RespErr(s, txt) EXCEPT !.remaining = remaining]]
    /\ lastRespAt' = [lastRespAt EXCEPT ![r] = now]
    /\ Catch(r, HttpError(s, txt))
    /\ UNCHANGED <<now, tracker, batch, retryCount, gets>>
    /\ UNCHANGED callerVars

\* script.js:115, 119: remaining !== null and parseInt(remaining) < 10
LowQuota(remaining) == remaining # NoHeader /\ JsLt(parseInt(remaining), Num(10))

\* script.js:120-121, 368-387: the warning is logged and the banner, which
\* replaces any banner there is, shows the header's value
ShowApiWarning(d, remaining) ==
    [d EXCEPT !.apiWarning = remaining, !.quotaWarnings = @ + 1]

\* mutant of ReceiveOk: a successful response clears the rate-limit flag
ReceiveOkClearingFlag(r, remaining) ==
    /\ pc[r] = "fetching"
    /\ lastResp' = [lastResp EXCEPT ![r] = [RespOk EXCEPT !.remaining = remaining]]
    /\ lastRespAt' = [lastRespAt EXCEPT ![r] = now]
    /\ pc' = [pc EXCEPT ![r] = "done"]
    /\ isRateLimited' = FALSE
    /\ dom' = IF op # "detail" /\ LowQuota(remaining)
              THEN ShowApiWarning(dom, remaining)
              ELSE dom
    /\ UNCHANGED <<now, apiCallCount, rateLimitResetTime, batch, retryCount, wake, err,
                   gets, waits>>
    /\ UNCHANGED <<loaderVars, op, page, data, curatedCalls, currentArtworks, sessionVars>>

\* script.js:107-125: the response is ok; it is returned to the caller, after
\* the low-quota warning of the gallery. artwork-detail.js:134-148: the detail
\* page only logs the header.
ReceiveOk(r, remaining) ==
    /\ pc[r] = "fetching"
    /\ lastResp' = [lastResp EXCEPT ![r] = [RespOk EXCEPT !.remaining = remaining]]
    /\ lastRespAt' = [lastRespAt EXCEPT ![r] = now]
    /\ pc' = [pc EXCEPT ![r] = "done"]
    /\ dom' = IF op # "detail" /\ LowQuota(remaining)
              THEN ShowApiWarning(dom, remaining)
              ELSE dom
    /\ UNCHANGED <<now, tracker, batch, retryCount, wake, err, gets, waits>>
    /\ UNCHANGED <<loaderVars, op, page, data, curatedCalls, currentArtworks, sessionVars>>

\* script.js:95-96: the wait after a 429 is over; makeApiCall(url, retryCount + 1).
RateWaitFires(r) ==
    /\ pc[r] = "rateWait"
    /\ wake[r] <= now
    /\ BeginAttempt(r, retryCount[r] + 1)
    /\ UNCHANGED <<now, rateLimitResetTime, isRateLimited, batch, err>>
    /\ UNCHANGED callerVars

\* script.js:132-133: the backoff after a network error is over; retry.
NetWaitFires(r) ==
    /\ pc[r] = "netWait"
    /\ wake[r] <= now
    /\ BeginAttempt(r, retryCount[r] + 1)
    /\ UNCHANGED <<now, rateLimitResetTime, isRateLimited, batch, err>>
    /\ UNCHANGED callerVars

\* ------------------------------------------------------------------ time
Waiting == {r \in DOMAIN pc : pc[r] \in {"preWait", "rateWait", "netWait"}}
Fetching == {r \in DOMAIN pc : pc[r] = "fetching"}

\* the deadlines of the pending timers: those of makeApiCall, and the
\* inter-batch delay of loadArtworkDetails (script.js:239)
Timers ==
    {wake[r] : r \in Waiting} \cup (IF loader = "delay" THEN {delayWake} ELSE {})

\* A timer that is due fires before the clock moves on.
NoTimerDue == \A t \in Timers : t > now

\* The clock runs to the next timer.
AdvanceToTimer ==
    /\ Timers # {}
    /\ NoTimerDue
    /\ now' = CHOOSE t \in Timers : \A u \in Timers : t <= u
    /\ UNCHANGED <<tracker, batch, pc, retryCount, wake, err, lastResp, lastRespAt,
                   gets, waits>>
    /\ UNCHANGED callerVars

\* Time passes while a fetch is in flight.
TimePasses ==
    /\ now + TickMs <= MaxTime
    /\ \A t \in Timers : t >= now + TickMs
    /\ Fetching # {}
    /\ now' = now + TickMs
    /\ UNCHANGED <<tracker, batch, pc, retryCount, wake, err, lastResp, lastRespAt,
                   gets, waits>>
    /\ UNCHANGED callerVars

Next ==
    \/ \E r \in Reqs : Call(r)
    \/ \E r \in Reqs : PreWaitFires(r)
    \/ \E r \in Reqs : FetchThrows(r)
    \/ \E r \in Reqs, h \in RetryAfterValues : Receive429(r, h)
    \/ \E r \in Reqs, e \in ErrorResponses : ReceiveHttpError(r, e[1], e[2], NoHeader)
    \/ \E r \in Reqs : ReceiveOk(r, NoHeader)
    \/ \E r \in Reqs : RateWaitFires(r)
    \/ \E r \in Reqs : NetWaitFires(r)
    \/ AdvanceToTimer
    \/ TimePasses

Spec == Init /\ [][Next]_vars

\* ================================================== loadArtworkDetails
\* ------------------------------------------------- JavaScript strings
\* A property of a parsed JSON object: undefined when absent, else a string.
Undefined == [tag |-> "undefined"]
Str(s) == [tag |-> "str", v |-> s]
\* ToBoolean of such a value: undefined and "" are falsy.
TruthyStr(x) == x.tag = "str" /\ x.v # ""
\* a || b
JsOr(a, b) == IF TruthyStr(a) THEN a ELSE b

\* ------------------------------------------------- the object endpoint
\* what a property may hold: nothing, the empty string, or a text of its own
FieldValues(f) == {Undefined, Str(""), Str(f)}
\* every raw record GET /objects/{id} can answer with
RawRecords(id) ==
    { [objectID |-> Num(id), title |-> t, primaryImage |-> pi, primaryImageSmall |-> ps,
       artistDisplayName |-> a, department |-> d, culture |-> c, objectDate |-> od,
       medium |-> m] :
         t \in FieldValues("title"), pi \in FieldValues("primaryImage"),
         ps \in FieldValues("primaryImageSmall"), a \in FieldValues("artistDisplayName"),
         d \in FieldValues("department"), c \in FieldValues("culture"),
         od \in FieldValues("objectDate"), m \in FieldValues("medium") }
\* a complete raw record, and the same record with some properties replaced
FullRecord(id) ==
    [objectID |-> Num(id), title |-> Str("title"), primaryImage |-> Str("primaryImage"),
     primaryImageSmall |-> Str("primaryImageSmall"),
     artistDisplayName |-> Str("artistDisplayName"), department |-> Str("department"),
     culture |-> Str("culture"), objectDate |-> Str("objectDate"), medium |-> Str("medium")]
\* the raw records the loader is run against: complete, without an image
\* (not in the public domain), and without a title
DetailBodies(id) ==
    { FullRecord(id),
      [FullRecord(id) EXCEPT !.primaryImage = Str(""), !.primaryImageSmall = Str("")],
      [FullRecord(id) EXCEPT !.title = Undefined] }
\* what response.json() settles with when the body is not JSON
NoBody == [tag |-> "none"]
ParseError == [name |-> "SyntaxError", message |-> <<"Unexpected", "token">>]

\* ------------------------------------------------------ the normalizer
\* mutant of Usable: the title is not looked at
UsableByImageOnly(artwork) == TruthyStr(artwork.primaryImage)

\* script.js:215: artwork.primaryImage && artwork.title
Usable(artwork) == TruthyStr(artwork.primaryImage) /\ TruthyStr(artwork.title)

\* mutant of Normalized: the large image is preferred
NormalizedLargeImageFirst(artwork) ==
    [id |-> artwork.objectID,
     title |-> artwork.title,
     artist |-> JsOr(artwork.artistDisplayName, Str("Unknown Artist")),
     location |-> JsOr(artwork.department, Str("Metropolitan Museum")),
     image |-> JsOr(artwork.primaryImage, artwork.primaryImageSmall),
     culture |-> artwork.culture,
     date |-> artwork.objectDate,
     medium |-> artwork.medium]

\* script.js:216-225: the record built from a usable raw record
Normalized(artwork) ==
    [id |-> artwork.objectID,
     title |-> artwork.title,
     artist |-> JsOr(artwork.artistDisplayName, Str("Unknown Artist")),
     location |-> JsOr(artwork.department, Str("Metropolitan Museum")),
     image |-> JsOr(artwork.primaryImageSmall, artwork.primaryImage),
     culture |-> artwork.culture,
     date |-> artwork.objectDate,
     medium |-> artwork.medium]

\* script.js:215-227: what the callback returns for a parsed raw record
ToArtwork(artwork) == IF Usable(artwork) THEN Normalized(artwork) ELSE Null

\* ------------------------------------------------------------ promises
NotCreated == [state |-> "none"]
Pending == [state |-> "pending"]
Fulfilled(v) == [state |-> "fulfilled", value |-> v]
Rejected(e) == [state |-> "rejected", reason |-> e]

\* mutant of DetailCatch: the error of one ID is passed on
DetailRethrow(error) == Rejected(error)

\* script.js:228-231: the catch block of the callback; the promise of the ID is
\* fulfilled with null
DetailCatch(error) == Fulfilled(Null)

\* mutant of PromiseAll: settled by the first promise that is fulfilled
PromiseAllFirst(ps) ==
    IF \E k \in DOMAIN ps : ps[k].state = "fulfilled"
    THEN Fulfilled(<<(ps[CHOOSE k \in DOMAIN ps : ps[k].state = "fulfilled"]).value>>)
    ELSE Pending

\* Promise.all over the promises ps (a sequence): rejected as soon as one is
\* rejected, fulfilled with the values in input order once all are fulfilled
PromiseAll(ps) ==
    IF \E k \in DOMAIN ps : ps[k].state = "rejected"
    THEN Rejected((ps[CHOOSE k \in DOMAIN ps : ps[k].state = "rejected"]).reason)
    ELSE IF \A k \in DOMAIN ps : ps[k].state = "fulfilled"
         THEN Fulfilled([k \in DOMAIN ps |-> ps[k].value])
         ELSE Pending

\* array.filter(artwork => artwork !== null)
RECURSIVE NotNull(_)
NotNull(arr) ==
    IF arr = <<>> THEN <<>>
    ELSE IF Head(arr) = Null THEN NotNull(Tail(arr))
         ELSE <<Head(arr)>> \o NotNull(Tail(arr))

\* ------------------------------------------------------------ the loop
\* script.js:208: the positions in ids of ids.slice(i0, i0 + batchSize); i0
\* counts from 0
Chunk(ids, i0) == {k \in 1 .. Len(ids) : i0 < k /\ k <= i0 + batchSize}

\* mutant of MoreChunks: a delay follows every chunk
MoreChunksAlways(ids, i0) == TRUE

\* script.js:238: is there a chunk after the one starting at i0
MoreChunks(ids, i0) == i0 + batchSize < Len(ids)

\* mutant of Push: the results of a chunk are put in front
PushFront(arr, items) == items \o arr

\* script.js:235: artworks.push(...items)
Push(arr, items) == arr \o items

\* script.js:61-73, 209-211: makeApiCall is called for the IDs at the positions
\* of chunk in one stretch, each call running to its first await: all of them
\* wait for the reset time, or all of them fetch.  The requests and promises
\* started before are finished and out of scope.
BeginRequests(chunk) ==
    /\ batch' = chunk
    /\ batchPromises' = [k \in chunk |-> Pending]
    /\ body' = [k \in chunk |-> NoBody]
    /\ loader' = "batch"
    /\ retryCount' = [k \in chunk |-> 0]
    /\ err' = [k \in chunk |-> NoError]
    /\ lastResp' = [k \in chunk |-> NoResp]
    /\ lastRespAt' = [k \in chunk |-> 0]
    /\ IF ShouldWait(isRateLimited, rateLimitResetTime, now)
       THEN /\ pc' = [k \in chunk |-> "preWait"]
            /\ wake' = [k \in chunk |->
                          now + TimerDelay(JsSub(rateLimitResetTime, Num(now)))]
            /\ waits' = [k \in chunk |-> [pre |-> 1, rate |-> 0, net |-> 0]]
            /\ gets' = [k \in chunk |-> 0]
            /\ UNCHANGED apiCallCount
       ELSE /\ pc' = [k \in chunk |-> "fetching"]
            /\ apiCallCount' = apiCallCount + Cardinality(chunk)
            /\ gets' = [k \in chunk |-> 1]
            /\ wake' = [k \in chunk |-> 0]
            /\ waits' = [k \in chunk |-> [pre |-> 0, rate |-> 0, net |-> 0]]
    /\ UNCHANGED <<now, rateLimitResetTime, isRateLimited>>

\* script.js:208-211: the chunk starting at i0 is sliced and the callback runs
\* for each of its IDs up to its first await.
BeginChunk(ids, i0) ==
    /\ chunkStart' = i0
    /\ chunksRun' = chunksRun + 1
    /\ BeginRequests(Chunk(ids, i0))

\* script.js:202-211: loadArtworkDetails(ids) is called and runs to its first
\* await, or to its return when there is no ID.
CallLoader(ids) ==
    /\ objectIds' = ids
    /\ artworks' = <<>>
    /\ IF 0 < Len(ids)
       THEN BeginChunk(ids, 0)
       ELSE /\ loader' = "returned"
            /\ UNCHANGED <<now, tracker, batch, pc, retryCount, wake, err, lastResp,
                           lastRespAt, gets, waits, chunkStart, batchPromises, body,
                           chunksRun>>
    /\ UNCHANGED <<delayWake, delaysRun, settledAt>>

\* loadArtworkDetails is called on the list objectIds.
LoadArtworkDetails ==
    /\ loader = "idle"
    /\ CallLoader(objectIds)
    /\ UNCHANGED pageVars

\* script.js:212-227: response.json() of the ID at position k gives the raw record.
JsonResolves(k, raw) ==
    /\ pc[k] = "done"
    /\ batchPromises[k] = Pending
    /\ body' = [body EXCEPT ![k] = raw]
    /\ batchPromises' = [batchPromises EXCEPT ![k] = Fulfilled(ToArtwork(raw))]
    /\ UNCHANGED <<now, tracker, batch, pc, retryCount, wake, err, lastResp, lastRespAt,
                   gets, waits>>
    /\ UNCHANGED <<objectIds, loader, chunkStart, artworks, delayWake, chunksRun,
                   delaysRun, settledAt>>
    /\ UNCHANGED pageVars

\* script.js:212, 228: response.json() rejects; the callback catches.
JsonRejects(k) ==
    /\ pc[k] = "done"
    /\ batchPromises[k] = Pending
    /\ body' = [body EXCEPT ![k] = ParseError]
    /\ batchPromises' = [batchPromises EXCEPT ![k] = DetailCatch(ParseError)]
    /\ UNCHANGED <<now, tracker, batch, pc, retryCount, wake, err, lastResp, lastRespAt,
                   gets, waits>>
    /\ UNCHANGED <<objectIds, loader, chunkStart, artworks, delayWake, chunksRun,
                   delaysRun, settledAt>>
    /\ UNCHANGED pageVars

\* script.js:211, 228: makeApiCall rejected; the callback catches.
DetailRequestFails(k) ==
    /\ pc[k] = "failed"
    /\ batchPromises[k] = Pending
    /\ batchPromises' = [batchPromises EXCEPT ![k] = DetailCatch(err[k])]
    /\ UNCHANGED <<now, tracker, batch, pc, retryCount, wake, err, lastResp, lastRespAt,
                   gets, waits>>
    /\ UNCHANGED <<objectIds, loader, chunkStart, body, artworks, delayWake, chunksRun,
                   delaysRun, settledAt>>
    /\ UNCHANGED pageVars

\* script.js:234-243: Promise.all of the chunk settles.  Fulfilled: the records
\* are pushed, then the delay is started or the list returned.  Rejected: the
\* await throws out of loadArtworkDetails.
PromiseAllSettles ==
    LET ps == [k \in 1 .. Cardinality(batch) |-> batchPromises[chunkStart + k]]
        all == PromiseAll(ps)
    IN  /\ loader = "batch"
        /\ all.state # "pending"
        /\ settledAt' = now
        /\ IF all.state = "fulfilled"
           THEN /\ artworks' = Push(artworks, NotNull(all.value))
                /\ IF MoreChunks(objectIds, chunkStart)
                   THEN /\ loader' = "delay"
                        /\ delayWake' = now + interBatchDelay
                        /\ delaysRun' = delaysRun + 1
                   ELSE /\ loader' = "returned"
                        /\ UNCHANGED <<delayWake, delaysRun>>
           ELSE /\ loader' = "rejected"
                /\ UNCHANGED <<artworks, delayWake, delaysRun>>
        /\ UNCHANGED <<now, tracker, batch, pc, retryCount, wake, err, lastResp,
                       lastRespAt, gets, waits>>
        /\ UNCHANGED <<objectIds, chunkStart, batchPromises, body, chunksRun>>
        /\ UNCHANGED pageVars

\* script.js:239, 207: the delay is over; i += batchSize and the next chunk starts.
DelayFires ==
    /\ loader = "delay"
    /\ delayWake <= now
    /\ BeginChunk(objectIds, chunkStart + batchSize)
    /\ UNCHANGED <<objectIds, artworks, delayWake, delaysRun, settledAt>>
    /\ UNCHANGED pageVars

\* The runs of the loader.  The IDs are IdAt(1), IdAt(2), ...  The GET of the
\* first ID may meet a 429, a transport error or a body that is not JSON; the
\* first batchSize + 2 IDs may be unknown to the server (404) or have no image;
\* every other ID has a complete record.  The loader is given a short list that
\* begins with the first ID, or a list of up to MaxIds IDs that begins with the
\* second.  Responses arrive in any order; the clock moves with the timers.
IdAt(k) == 100 + k
FlakyIds == {IdAt(1)}
UnreliableIds == {IdAt(k) : k \in 1 .. batchSize + 2}
IdLists ==
    {[k \in 1 .. n |-> IdAt(k)] : n \in 0 .. batchSize + 1}
        \cup {[k \in 1 .. n |-> IdAt(k + 1)] : n \in 0 .. MaxIds}
Flaky == {k \in DOMAIN pc : objectIds[k] \in FlakyIds}
Unreliable == {k \in DOMAIN pc : objectIds[k] \in UnreliableIds}
LoaderRetryAfter == {NoHeader, <<"2">>}
LoaderErrors == { <<404, <<"Not", "Found">> >> }
LoaderBodies(id) == IF id \in UnreliableIds THEN DetailBodies(id) ELSE {FullRecord(id)}

\* loadArtworkDetails is about to be called on a list of up to MaxIds IDs, on a
\* fresh page or on one that was rate limited a moment ago.
LoaderInit ==
    /\ now = StartTime
    /\ apiCallCount = 0
    /\ \/ isRateLimited = FALSE /\ rateLimitResetTime = Null
       \/ isRateLimited = TRUE /\ rateLimitResetTime = Num(StartTime + baseDelay)
    /\ objectIds \in IdLists
    /\ batch = {}
    /\ pc = <<>>
    /\ retryCount = <<>>
    /\ wake = <<>>
    /\ err = <<>>
    /\ lastResp = <<>>
    /\ lastRespAt = <<>>
    /\ gets = <<>>
    /\ waits = <<>>
    /\ loader = "idle"
    /\ chunkStart = 0
    /\ batchPromises = <<>>
    /\ body = <<>>
    /\ artworks = <<>>
    /\ delayWake = 0
    /\ chunksRun = 0
    /\ delaysRun = 0
    /\ settledAt = 0
    /\ PageNotLoaded

LoaderNext ==
    \/ LoadArtworkDetails
    \/ \E k \in DOMAIN pc : PreWaitFires(k)
    \/ \E k \in Flaky : FetchThrows(k)
    \/ \E k \in Flaky, h \in LoaderRetryAfter : Receive429(k, h)
    \/ \E k \in Unreliable, e \in LoaderErrors : ReceiveHttpError(k, e[1], e[2], NoHeader)
    \/ \E k \in DOMAIN pc : ReceiveOk(k, NoHeader)
    \/ \E k \in DOMAIN pc : RateWaitFires(k)
    \/ \E k \in DOMAIN pc : NetWaitFires(k)
    \/ \E k \in DOMAIN pc : \E raw \in LoaderBodies(objectIds[k]) : JsonResolves(k, raw)
    \/ \E k \in Flaky : JsonRejects(k)
    \/ \E k \in DOMAIN pc : DetailRequestFails(k)
    \/ PromiseAllSettles
    \/ DelayFires
    \/ AdvanceToTimer

SpecLoader == LoaderInit /\ [][LoaderNext]_vars

\* ------------------------------------------ the loader without makeApiCall
\* unnamed/part_001:104-146: the earlier script calls fetch directly, in chunks
\* of four with 200 ms between them; there is no retry and no tracker.
plainBatchSize == 4
plainDelay == 200

\* mutant of PlainChunk: the slice is one too long
PlainChunkOneMore(ids, i0) == {k \in 1 .. Len(ids) : i0 < k /\ k <= i0 + plainBatchSize + 1}

\* part_001:110: the positions in ids of ids.slice(i0, i0 + batchSize)
PlainChunk(ids, i0) == {k \in 1 .. Len(ids) : i0 < k /\ k <= i0 + plainBatchSize}

\* part_001:110-113: the chunk starting at i0 is sliced and fetch is called for
\* each of its IDs.
PlainBeginChunk(ids, i0) ==
    LET chunk == PlainChunk(ids, i0)
    IN  /\ chunkStart' = i0
        /\ chunksRun' = chunksRun + 1
        /\ batch' = chunk
        /\ batchPromises' = [k \in chunk |-> Pending]
        /\ body' = [k \in chunk |-> NoBody]
        /\ loader' = "batch"
        /\ pc' = [k \in chunk |-> "fetching"]
        /\ retryCount' = [k \in chunk |-> 0]
        /\ err' = [k \in chunk |-> NoError]
        /\ lastResp' = [k \in chunk |-> NoResp]
        /\ lastRespAt' = [k \in chunk |-> 0]
        /\ gets' = [k \in chunk |-> 1]
        /\ wake' = [k \in chunk |-> 0]
        /\ waits' = [k \in chunk |-> [pre |-> 0, rate |-> 0, net |-> 0]]
        /\ UNCHANGED <<now, tracker>>

\* part_001:104-113: loadArtworkDetails(objectIds) of the earlier script is called.
PlainLoadArtworkDetails ==
    /\ op = "none"
    /\ loader = "idle"
    /\ op' = "plain"
    /\ artworks' = <<>>
    /\ IF 0 < Len(objectIds)
       THEN PlainBeginChunk(objectIds, 0)
       ELSE /\ loader' = "returned"
            /\ UNCHANGED <<now, tracker, batch, pc, retryCount, wake, err, lastResp,
                           lastRespAt, gets, waits, chunkStart, batchPromises, body,
                           chunksRun>>
    /\ UNCHANGED <<objectIds, delayWake, delaysRun, settledAt>>
    /\ UNCHANGED <<page, data, curatedCalls, dom, currentArtworks, sessionVars>>

\* part_001:113-114: fetch resolves with a response, whatever its status; the
\* callback goes on to response.json().
PlainFetchResolves(k, resp) ==
    /\ op = "plain"
    /\ pc[k] = "fetching"
    /\ lastResp' = [lastResp EXCEPT ![k] = resp]
    /\ lastRespAt' = [lastRespAt EXCEPT ![k] = now]
    /\ pc' = [pc EXCEPT ![k] = "done"]
    /\ UNCHANGED <<now, tracker, batch, retryCount, wake, err, gets, waits>>
    /\ UNCHANGED callerVars

\* part_001:113, 131-134: fetch rejects; the callback catches and returns null.
PlainFetchThrows(k) ==
    /\ op = "plain"
    /\ pc[k] = "fetching"
    /\ lastResp' = [lastResp EXCEPT ![k] = FetchThrew]
    /\ lastRespAt' = [lastRespAt EXCEPT ![k] = now]
    /\ pc' = [pc EXCEPT ![k] = "failed"]
    /\ err' = [err EXCEPT ![k] = TypeErrorFailedToFetch]
    /\ batchPromises' = [batchPromises EXCEPT ![k] = Fulfilled(Null)]
    /\ UNCHANGED <<now, tracker, batch, retryCount, wake, gets, waits>>
    /\ UNCHANGED <<objectIds, loader, chunkStart, body, artworks, delayWake, chunksRun,
                   delaysRun, settledAt>>
    /\ UNCHANGED pageVars

\* part_001:136-146: Promise.all of the chunk settles; the records are pushed,
\* then the delay is started or the list returned.
PlainPromiseAllSettles ==
    LET ps == [k \in 1 .. Cardinality(batch) |-> batchPromises[chunkStart + k]]
        all == PromiseAll(ps)
    IN  /\ op = "plain"
        /\ loader = "batch"
        /\ all.state = "fulfilled"
        /\ settledAt' = now
        /\ artworks' = Push(artworks, NotNull(all.value))
        /\ IF chunkStart + plainBatchSize < Len(objectIds)
           THEN /\ loader' = "delay"
                /\ delayWake' = now + plainDelay
                /\ delaysRun' = delaysRun + 1
           ELSE /\ loader' = "returned"
                /\ UNCHANGED <<delayWake, delaysRun>>
        /\ UNCHANGED <<now, tracker, batch, pc, retryCount, wake, err, lastResp,
                       lastRespAt, gets, waits>>
        /\ UNCHANGED <<objectIds, chunkStart, batchPromises, body, chunksRun>>
        /\ UNCHANGED pageVars

\* part_001:141, 109: the delay is over; i += batchSize and the next chunk starts.
PlainDelayFires ==
    /\ op = "plain"
    /\ loader = "delay"
    /\ delayWake <= now
    /\ PlainBeginChunk(objectIds, chunkStart + plainBatchSize)
    /\ UNCHANGED <<objectIds, artworks, delayWake, delaysRun, settledAt>>
    /\ UNCHANGED pageVars

PlainNext ==
    \/ PlainLoadArtworkDetails
    \/ \E k \in DOMAIN pc : PlainFetchResolves(k, RespOk)
    \/ \E k \in Unreliable, e \in LoaderErrors : PlainFetchResolves(k, RespErr(e[1], e[2]))
    \/ \E k \in Flaky : PlainFetchThrows(k)
    \/ op = "plain" /\ \E k \in DOMAIN pc : \E raw \in LoaderBodies(objectIds[k]) :
                          JsonResolves(k, raw)
    \/ op = "plain" /\ \E k \in Unreliable : JsonRejects(k)
    \/ PlainPromiseAllSettles
    \/ PlainDelayFires
    \/ op = "plain" /\ AdvanceToTimer

\* loadArtworkDetails of either script is called on a list of up to MaxIds IDs.
LoadersNext ==
    \/ op = "none" /\ LoaderNext
    \/ PlainNext

SpecLoaders == LoaderInit /\ [][LoadersNext]_vars

\* ------------------------------------------------- the normalizer alone
\* The response for a single ID has arrived with any raw record as its body;
\* the callback is about to resume with the parsed record.
NormInit ==
    /\ now = StartTime
    /\ apiCallCount = 1
    /\ rateLimitResetTime = Null
    /\ isRateLimited = FALSE
    /\ objectIds = <<IdAt(1)>>
    /\ batch = {1}
    /\ pc = <<"done">>
    /\ retryCount = <<0>>
    /\ wake = <<0>>
    /\ err = <<NoError>>
    /\ lastResp = <<RespOk>>
    /\ lastRespAt = <<StartTime>>
    /\ gets = <<1>>
    /\ waits = <<[pre |-> 0, rate |-> 0, net |-> 0]>>
    /\ loader = "batch"
    /\ chunkStart = 0
    /\ batchPromises = <<Pending>>
    /\ body \in {<<raw>> : raw \in RawRecords(IdAt(1))}
    /\ artworks = <<>>
    /\ delayWake = 0
    /\ chunksRun = 1
    /\ delaysRun = 0
    /\ settledAt = 0
    /\ PageNotLoaded

NormNext ==
    \/ JsonResolves(1, body[1])
    \/ PromiseAllSettles

SpecNorm == NormInit /\ [][NormNext]_vars

\* ====================================================== the gallery page
\* ------------------------------------------------------------- the DOM
\* script.js:283-288
ShowLoadingSkeletons(d) == [d EXCEPT !.skeletons = TRUE]
\* script.js:290-295
HideLoadingSkeletons(d) == [d EXCEPT !.skeletons = FALSE]
\* script.js:297-319: the cards are replaced, one no-results message is removed
DisplayArtworks(d, list) ==
    [d EXCEPT !.skeletons = FALSE,
              !.cards = list,
              !.noResults = IF @ > 0 THEN @ - 1 ELSE 0]
\* script.js:349-366
ShowNoResults(d) == [d EXCEPT !.cards = <<>>, !.noResults = @ + 1]
\* script.js:430-452
ShowErrorMessage(d, message) ==
    [d EXCEPT !.skeletons = FALSE, !.cards = <<>>, !.errors = Append(@, message)]

BrowseRateLimitMessage == "API rate limit exceeded. Please wait a moment and try again."
SearchRateLimitMessage == "Search rate limit exceeded. Please wait a moment and try again."
SearchFailedMessage == "Search failed. Please try again."

\* ------------------------------------------- the listing and search bodies
\* the objectIDs property of the parsed body: null, or an array of IDs
Arr(items) == [tag |-> "array", items |-> items]
\* the bodies GET /objects and GET /search answer with
ListingBodies ==
    { [objectIDs |-> Null],
      [objectIDs |-> Arr(<<>>)],
      [objectIDs |-> Arr(<<IdAt(2), IdAt(3)>>)] }
\* the error responses of the listing and search endpoints
ListingErrors ==
    { <<500, <<"Internal", "Server", "Error">> >>,
      <<503, <<"Rate limited">> >> }
\* script.js:155
NoArtworksFound == [name |-> "Error", message |-> <<"No artworks found">>]

\* mutant of HasIds: an empty array counts as a result
HasIdsArray(d) == d.objectIDs.tag = "array"

\* script.js:149 and :180: data.objectIDs && data.objectIDs.length > 0
HasIds(d) == d.objectIDs.tag = "array" /\ Len(d.objectIDs.items) > 0

\* script.js:161 and :194: error.message.includes('Rate limited')
IsRateLimitMessage(error) == Includes(error.message, <<"Rate limited">>)

\* mutant of FirstIds: the array is not cut
AllIds(array, size) == array

\* script.js:182, 279: array.slice(0, size)
FirstIds(array, size) == SubSeq(array, 1, IF size < Len(array) THEN size ELSE Len(array))

\* script.js:278: [...array].sort(() => 0.5 - Math.random()) gives some
\* permutation of the copy; the outcomes followed here are the array as it is,
\* reversed, and rotated by one (all permutations of an array of two)
Shuffles(array) ==
    { array,
      [j \in 1 .. Len(array) |-> array[Len(array) + 1 - j]],
      IF array = <<>> THEN array ELSE Tail(array) \o <<Head(array)>> }

\* script.js:276-280: the first `size` elements of a shuffle of array
GetRandomSample(array, size) == {FirstIds(shuffled, size) : shuffled \in Shuffles(array)}

\* ------------------------------------------------------ the operations
\* script.js:247-267: loadCuratedArtworks() is called and runs to its await.
LoadCuratedArtworks ==
    /\ curatedCalls' = curatedCalls + 1
    /\ page' = "curated"
    /\ CallLoader(curatedIds)
    /\ UNCHANGED <<op, dom, currentArtworks, sessionVars>>

\* script.js:158-167: the catch block of loadRandomArtworks
BrowseCatch(error) ==
    IF IsRateLimitMessage(error)
    THEN /\ dom' = ShowErrorMessage(dom, BrowseRateLimitMessage)
         /\ page' = "done"
         /\ UNCHANGED <<now, tracker, batch, pc, retryCount, wake, err, lastResp,
                        lastRespAt, gets, waits>>
         /\ UNCHANGED <<loaderVars, op, curatedCalls, currentArtworks, sessionVars>>
    ELSE LoadCuratedArtworks

\* a search catch that falls back to the curated list like the browse catch
SearchCatchWithFallback(error) ==
    IF IsRateLimitMessage(error)
    THEN /\ dom' = ShowErrorMessage(dom, SearchRateLimitMessage)
         /\ page' = "done"
         /\ UNCHANGED <<now, tracker, batch, pc, retryCount, wake, err, lastResp,
                        lastRespAt, gets, waits>>
         /\ UNCHANGED <<loaderVars, op, curatedCalls, currentArtworks, sessionVars>>
    ELSE LoadCuratedArtworks

\* script.js:191-199: the catch block of searchArtworks
SearchCatch(error) ==
    /\ dom' = ShowErrorMessage(dom, IF IsRateLimitMessage(error)
                                    THEN SearchRateLimitMessage
                                    ELSE SearchFailedMessage)
    /\ page' = "done"
    /\ UNCHANGED <<now, tracker, batch, pc, retryCount, wake, err, lastResp,
                   lastRespAt, gets, waits>>
    /\ UNCHANGED <<loaderVars, op, curatedCalls, currentArtworks, sessionVars>>

\* the catch block of the operation that is running
OpCatch(error) == IF op = "browse" THEN BrowseCatch(error) ELSE SearchCatch(error)

\* script.js:140-146: loadRandomArtworks() is called and runs to its first await.
LoadRandomArtworks ==
    /\ page = "idle"
    /\ op' = "browse"
    /\ page' = "listing"
    /\ dom' = ShowLoadingSkeletons(dom)
    /\ BeginAttempt(0, 0)
    /\ UNCHANGED <<now, rateLimitResetTime, isRateLimited, batch, err>>
    /\ UNCHANGED <<loaderVars, data, curatedCalls, currentArtworks, sessionVars>>

\* script.js:170-177: searchArtworks(query) is called and runs to its first await.
SearchArtworks ==
    /\ page = "idle"
    /\ op' = "search"
    /\ page' = "listing"
    /\ dom' = ShowLoadingSkeletons(dom)
    /\ BeginAttempt(0, 0)
    /\ UNCHANGED <<now, rateLimitResetTime, isRateLimited, batch, err>>
    /\ UNCHANGED <<loaderVars, data, curatedCalls, currentArtworks, sessionVars>>

\* the request of the listing or search call, while the operation awaits it
ListingSlot == IF page = "listing" THEN DOMAIN pc ELSE {}
\* the requests of the detail loader
DetailSlots == DOMAIN batchPromises

\* script.js:147-156 and :178-189: response.json() of the listing or search
\* call gives d.  With IDs, the loader is called on a sample (browse) or on
\* the first 12 (search); without, browse throws and search shows no results.
ListingJsonResolves(d) ==
    /\ page = "listing"
    /\ \E k \in ListingSlot : pc[k] = "done"
    /\ data' = d
    /\ IF HasIds(d)
       THEN /\ \E ids \in (IF op = "browse"
                           THEN GetRandomSample(d.objectIDs.items, Len(curatedIds))
                           ELSE {FirstIds(d.objectIDs.items, Len(curatedIds))}) :
                  CallLoader(ids)
            /\ page' = "details"
            /\ UNCHANGED <<op, curatedCalls, dom, currentArtworks, sessionVars>>
       ELSE IF op = "browse"
            THEN BrowseCatch(NoArtworksFound)
            ELSE /\ dom' = ShowNoResults(HideLoadingSkeletons(dom))
                 /\ page' = "done"
                 /\ UNCHANGED <<now, tracker, batch, pc, retryCount, wake, err, lastResp,
                                lastRespAt, gets, waits>>
                 /\ UNCHANGED <<loaderVars, op, curatedCalls, currentArtworks, sessionVars>>

\* script.js:147, 158 and :178, 191: response.json() rejects; the operation catches.
ListingJsonRejects ==
    /\ page = "listing"
    /\ \E k \in ListingSlot : pc[k] = "done"
    /\ OpCatch(ParseError)
    /\ UNCHANGED data

\* script.js:146, 158 and :177, 191: makeApiCall rejected; the operation catches.
ListingFails ==
    /\ page = "listing"
    /\ \E k \in ListingSlot : pc[k] = "failed" /\ OpCatch(err[k])
    /\ UNCHANGED data

\* script.js:152-153, :183-184 and :267-268: loadArtworkDetails has returned its
\* list (it never throws); the operation displays it.
LoaderReturns ==
    /\ page \in {"details", "curated"}
    /\ loader = "returned"
    /\ dom' = DisplayArtworks(dom, artworks)
    /\ currentArtworks' = artworks
    /\ page' = "done"
    /\ UNCHANGED <<now, tracker, batch, pc, retryCount, wake, err, lastResp, lastRespAt,
                   gets, waits>>
    /\ UNCHANGED <<loaderVars, op, data, curatedCalls, sessionVars>>

\* the error responses the request at slot k may be given
PageErrors(k) ==
    IF k \in ListingSlot THEN ListingErrors
    ELSE IF k \in DetailSlots /\ objectIds[k] \in UnreliableIds THEN LoaderErrors
         ELSE {}

\* The page is loaded and about to start one operation, with a fresh tracker
\* or one that was rate limited a moment ago.
PageInit ==
    /\ now = StartTime
    /\ apiCallCount = 0
    /\ \/ isRateLimited = FALSE /\ rateLimitResetTime = Null
       \/ isRateLimited = TRUE /\ rateLimitResetTime = Num(StartTime + baseDelay)
    /\ batch = {0}
    /\ pc = [k \in {0} |-> "idle"]
    /\ retryCount = [k \in {0} |-> 0]
    /\ wake = [k \in {0} |-> 0]
    /\ err = [k \in {0} |-> NoError]
    /\ lastResp = [k \in {0} |-> NoResp]
    /\ lastRespAt = [k \in {0} |-> 0]
    /\ gets = [k \in {0} |-> 0]
    /\ waits = [k \in {0} |-> [pre |-> 0, rate |-> 0, net |-> 0]]
    /\ LoaderNotCalled
    /\ PageNotLoaded

PageNext ==
    \/ LoadRandomArtworks
    \/ SearchArtworks
    \/ \E k \in DOMAIN pc : PreWaitFires(k)
    \/ \E k \in ListingSlot : FetchThrows(k)
    \/ \E k \in ListingSlot, h \in LoaderRetryAfter : Receive429(k, h)
    \/ \E k \in DOMAIN pc : \E e \in PageErrors(k) : ReceiveHttpError(k, e[1], e[2], NoHeader)
    \/ \E k \in DOMAIN pc : ReceiveOk(k, NoHeader)
    \/ \E k \in DOMAIN pc : RateWaitFires(k)
    \/ \E k \in DOMAIN pc : NetWaitFires(k)
    \/ \E d \in ListingBodies : ListingJsonResolves(d)
    \/ ListingJsonRejects
    \/ ListingFails
    \/ \E k \in DetailSlots : \E raw \in LoaderBodies(objectIds[k]) : JsonResolves(k, raw)
    \/ \E k \in DetailSlots : DetailRequestFails(k)
    \/ PromiseAllSettles
    \/ DelayFires
    \/ LoaderReturns
    \/ AdvanceToTimer

SpecPage == PageInit /\ [][PageNext]_vars

\* The same, with the scheduling the browser guarantees: every fetch and every
\* response.json() settles, every timer fires and every continuation that can
\* run is run.
FairSpecPage == SpecPage /\ WF_vars(PageNext)

\* The same page load with a listing or search body of more IDs than are shown.
LongListings == { [objectIDs |-> Arr([j \in 1 .. MaxIds + 1 |-> IdAt(batchSize + 2 + j)])] }

SampleNext ==
    \/ PageNext
    \/ \E d \in LongListings : ListingJsonResolves(d)

SpecSample == PageInit /\ [][SampleNext]_vars

\* ------------------------------------------------- the API is failing
\* Browse while the API is failing: the listing call meets transport errors or
\* an HTTP 500, so the fallback runs; each GET for a curated ID is answered
\* with its complete record or with an HTTP 500, in any order.
OutageErrors == { <<500, <<"Internal", "Server", "Error">> >> }

FallbackInit ==
    /\ PageInit
    /\ isRateLimited = FALSE

FallbackNext ==
    \/ LoadRandomArtworks
    \/ \E k \in ListingSlot : FetchThrows(k)
    \/ \E k \in DOMAIN pc : NetWaitFires(k)
    \/ \E k \in DOMAIN pc : \E e \in OutageErrors : ReceiveHttpError(k, e[1], e[2], NoHeader)
    \/ \E k \in DetailSlots : ReceiveOk(k, NoHeader)
    \/ ListingFails
    \/ \E k \in DetailSlots : JsonResolves(k, FullRecord(objectIds[k]))
    \/ \E k \in DetailSlots : DetailRequestFails(k)
    \/ PromiseAllSettles
    \/ DelayFires
    \/ LoaderReturns
    \/ AdvanceToTimer

SpecFallback == FallbackInit /\ [][FallbackNext]_vars

\* ------------------------------------------------ overlapping requests
\* The user submits the search box again and again while earlier requests are
\* still loading.  Nothing cancels a request: each one runs its own chain of
\* awaits (the calls of the page model above) and, when its loader has
\* returned, displays its own result, however many requests were started
\* after it.  Network latency decides which chain ends first.

\* what the search box may hold: nothing, a blank, a word, a word in blanks
Inputs == { <<>>, <<" ">>, <<"m">>, <<"d">>, <<" ", "d", " ">> }

\* String.prototype.trim
RECURSIVE TrimStart(_)
TrimStart(str) == IF str # <<>> /\ Head(str) = " " THEN TrimStart(Tail(str)) ELSE str
RECURSIVE TrimEnd(_)
TrimEnd(str) ==
    IF str # <<>> /\ str[Len(str)] = " " THEN TrimEnd(SubSeq(str, 1, Len(str) - 1)) ELSE str
Trim(str) == TrimEnd(TrimStart(str))

\* the records a list of IDs loads to when every GET succeeds
RecordsFor(ids) == [j \in DOMAIN ids |-> Normalized(FullRecord(ids[j]))]
\* the IDs GET /search answers with for a query, and those of GET /objects
SearchHits(query) == IF query = <<"m">> THEN <<IdAt(1)>> ELSE <<IdAt(2)>>
AllObjects == <<IdAt(3), IdAt(4)>>
\* script.js:149-153 and :180-184: the lists a request may hand to displayArtworks
ResultsOf(request) ==
    IF request.kind = "search"
    THEN {RecordsFor(FirstIds(SearchHits(request.query), Len(curatedIds)))}
    ELSE {RecordsFor(ids) : ids \in GetRandomSample(AllObjects, Len(curatedIds))}

\* script.js:140-146 and :170-177: a request starts and runs to its first await
StartRequest(kind, query) ==
    /\ dom' = ShowLoadingSkeletons(dom)
    /\ requests' = Append(requests, [kind |-> kind, query |-> query,
                                     state |-> "loading", result |-> <<>>])

\* script.js:400-424: handleSearch with the search box holding input; a blank
\* query goes to clearSearch, which browses
HandleSearch(input) ==
    LET query == Trim(input) IN
    /\ Len(requests) < MaxRequests
    /\ IF query # <<>>
       THEN StartRequest("search", query)
       ELSE StartRequest("browse", <<>>)
    /\ UNCHANGED <<now, tracker, batch, pc, retryCount, wake, err, lastResp, lastRespAt,
                   gets, waits>>
    /\ UNCHANGED <<loaderVars, op, page, data, curatedCalls, currentArtworks, detailView>>

\* script.js:153 and :184: the loader of request g has returned list; the
\* request displays it
RequestDisplays(g, list) ==
    /\ requests[g].state = "loading"
    /\ dom' = DisplayArtworks(dom, list)
    /\ currentArtworks' = list
    /\ requests' = [requests EXCEPT ![g].state = "displayed", ![g].result = list]
    /\ UNCHANGED <<now, tracker, batch, pc, retryCount, wake, err, lastResp, lastRespAt,
                   gets, waits>>
    /\ UNCHANGED <<loaderVars, op, page, data, curatedCalls, detailView>>

RaceInit ==
    /\ PageInit
    /\ isRateLimited = FALSE

RaceNext ==
    \/ \E input \in Inputs : HandleSearch(input)
    \/ \E g \in DOMAIN requests : \E list \in ResultsOf(requests[g]) : RequestDisplays(g, list)

SpecRace == RaceInit /\ [][RaceNext]_vars

\* ------------------------------------------------------- the page load
\* what URLSearchParams.get('search') may return: null when the parameter is
\* absent, or its value
Param(str) == [tag |-> "param", v |-> str]
UrlParams == {Null} \cup {Param(str) : str \in Inputs}
\* JavaScript truthiness of a string or null: null and "" are falsy
TruthyString(s) == s # Null /\ s.v # <<>>
\* a request as StartRequest records it
NewRequest(kind, query) ==
    [kind |-> kind, query |-> query, state |-> "loading", result |-> <<>>]

\* initializeApp starting the browse request whatever the URL holds
InitializeAppAlways(rs, search) == Append(rs, NewRequest("browse", <<>>))
\* script.js:34-42: initializeApp; rs is the list of requests started so far
InitializeApp(rs, search) ==
    IF ~TruthyString(search) THEN Append(rs, NewRequest("browse", <<>>)) ELSE rs
\* script.js:25-31: the rest of the DOMContentLoaded handler
UrlSearchCheck(rs, search) ==
    IF TruthyString(search) THEN Append(rs, NewRequest("search", search.v)) ELSE rs

\* script.js:21-32: the DOMContentLoaded handler, with the URL holding search
DOMContentLoaded(search) ==
    /\ op = "none"
    /\ requests = <<>>
    /\ requests' = UrlSearchCheck(InitializeApp(requests, search), search)
    /\ dom' = IF requests' # requests THEN ShowLoadingSkeletons(dom) ELSE dom
    /\ op' = "loaded"
    /\ UNCHANGED <<now, tracker, batch, pc, retryCount, wake, err, lastResp, lastRespAt,
                   gets, waits>>
    /\ UNCHANGED <<loaderVars, page, data, curatedCalls, currentArtworks, detailView>>

\* the listeners exist once the handler has run (script.js:23, :45-54)
StartNext ==
    \/ \E search \in UrlParams : DOMContentLoaded(search)
    \/ op = "loaded" /\ \E input \in Inputs : HandleSearch(input)
    \/ \E g \in DOMAIN requests : \E list \in ResultsOf(requests[g]) : RequestDisplays(g, list)

SpecStart == RaceInit /\ [][StartNext]_vars

\* ====================================================== the detail page
\* artwork-detail.js has its own tracker and its own copy of makeApiCall
\* (artwork-detail.js:86-160), which differs from script.js:57-137 only in not
\* calling showApiWarning: the actions of makeApiCall above are those of this
\* page as well.
maxRelated == 6
relatedDelay == 200

\* ---------------------------------------------------------- the panels
\* artwork-detail.js:489-493
ShowLoading(v) == [v EXCEPT !.loading = TRUE, !.detail = FALSE, !.error = FALSE]
\* artwork-detail.js:495-498
HideLoading(v) == [v EXCEPT !.loading = FALSE, !.detail = TRUE]
\* artwork-detail.js:500-520
ShowError(v, message) ==
    [v EXCEPT !.loading = FALSE, !.detail = FALSE, !.error = TRUE, !.message = message]

\* artwork-detail.js:179-187: the message chosen for an error
DetailErrorMessage(error) ==
    IF Includes(error.message, <<"Rate limited">>)
    THEN "API rate limit exceeded. Please wait a moment and try again."
    ELSE IF Includes(error.message, <<"HTTP", "404">>)
         THEN "This artwork was not found in the museum's collection."
         ELSE IF Includes(error.message, <<"HTTP">>)
              THEN "The museum's API is temporarily unavailable. Please try again later."
              ELSE "Failed to load artwork details."

\* ------------------------------------------------------ the endpoints
\* the artwork the page is opened for
CurrentId == IdAt(1)
\* what GET /objects/{id} answers with for it: JSON null, a record without
\* objectID, a complete record, a record without department
ObjectBodies ==
    { Null,
      [FullRecord(CurrentId) EXCEPT !.objectID = Undefined],
      FullRecord(CurrentId),
      [FullRecord(CurrentId) EXCEPT !.department = Undefined] }
\* the error responses of that call
ObjectErrors ==
    { <<404, <<"Not", "Found">> >>,
      <<500, <<"Internal", "Server", "Error">> >>,
      <<500, <<"upstream", "returned", "HTTP", "404">> >>,
      <<503, <<"Rate limited">> >> }
\* artwork-detail.js:174
ArtworkNotFound == [name |-> "Error", message |-> <<"Artwork not found">>]
\* artwork-detail.js:170: artworkData && artworkData.objectID
HasObjectId(d) == IF d = Null THEN FALSE ELSE d.objectID # Undefined /\ Truthy(d.objectID)

\* the bodies of the search for related artworks
RelatedBodies ==
    { [objectIDs |-> Null],
      [objectIDs |-> Arr(<<CurrentId>>)],
      [objectIDs |-> Arr(<<IdAt(2), CurrentId, IdAt(3)>>)] }
\* a title, as its characters
Chars(str) == [tag |-> "chars", v |-> str]
\* the raw records of a related artwork: with a short title and, for the IDs
\* the server is unreliable about, with a title of 31 characters, without small
\* image, without title
RelatedItemBodies(id) ==
    { [objectID |-> Num(id), title |-> Chars(<<"A", "r", "t">>), primaryImageSmall |-> Str("small")] }
    \cup
    IF id \in UnreliableIds
    THEN { [objectID |-> Num(id), title |-> Chars([i \in 1 .. 31 |-> "x"]),
            primaryImageSmall |-> Str("small")],
           [objectID |-> Num(id), title |-> Chars(<<"A", "r", "t">>),
            primaryImageSmall |-> Str("")],
           [objectID |-> Num(id), title |-> Undefined, primaryImageSmall |-> Str("small")] }
    ELSE {}
\* artwork-detail.js:388: artwork.primaryImageSmall && artwork.title
RelatedUsable(artwork) ==
    TruthyStr(artwork.primaryImageSmall) /\ artwork.title # Undefined /\ artwork.title.v # <<>>
\* artwork-detail.js:391: titles of more than 30 characters are cut to 27 and "..."
RelatedTitle(t) ==
    IF Len(t.v) > 30 THEN Chars(SubSeq(t.v, 1, 27) \o <<".", ".", ".">>) ELSE t
\* artwork-detail.js:389-393
RelatedRecord(artwork) ==
    [objectID |-> artwork.objectID, title |-> RelatedTitle(artwork.title),
     primaryImageSmall |-> artwork.primaryImageSmall]
\* mutant of Without: nothing is filtered out
WithoutNone(ids, current) == ids

\* artwork-detail.js:366: data.objectIDs.filter(id => id !== parseInt(currentObjectId))
RECURSIVE Without(_, _)
Without(ids, current) ==
    IF ids = <<>> THEN <<>>
    ELSE IF Head(ids) = current THEN Without(Tail(ids), current)
         ELSE <<Head(ids)>> \o Without(Tail(ids), current)

\* ---------------------------------------------- loadRelatedArtworkDetails
\* artwork-detail.js:384-385: the request for the ID at position i is issued
RelatedBegin(i) ==
    /\ chunkStart' = i - 1
    /\ chunksRun' = chunksRun + 1
    /\ BeginRequests({i})

\* artwork-detail.js:381-385, 407: loadRelatedArtworkDetails(ids) is called and
\* runs to its first await, or to its return when there is no ID
CallRelatedLoader(ids) ==
    /\ objectIds' = ids
    /\ artworks' = <<>>
    /\ IF 0 < Len(ids)
       THEN RelatedBegin(1)
       ELSE /\ loader' = "returned"
            /\ UNCHANGED <<now, tracker, batch, pc, retryCount, wake, err, lastResp,
                           lastRespAt, gets, waits, chunkStart, batchPromises, body,
                           chunksRun>>
    /\ UNCHANGED <<delayWake, delaysRun, settledAt>>

\* artwork-detail.js:400-404: after the ID at hand, with the list now being
\* list: leave the loop with enough records, else start the delay
AfterRelatedItem(list) ==
    /\ artworks' = list
    /\ settledAt' = now
    /\ IF Len(list) >= maxRelated
       THEN /\ loader' = "returned"
            /\ UNCHANGED <<delayWake, delaysRun>>
       ELSE /\ loader' = "delay"
            /\ delayWake' = now + relatedDelay
            /\ delaysRun' = delaysRun + 1
    /\ UNCHANGED <<now, tracker, batch, pc, retryCount, wake, err, lastResp, lastRespAt,
                   gets, waits>>
    /\ UNCHANGED <<objectIds, chunkStart, chunksRun>>
    /\ UNCHANGED <<op, page, data, curatedCalls, dom, currentArtworks, sessionVars>>

\* artwork-detail.js:385-394: response.json() of the ID at position k gives raw
RelatedItemResolves(k, raw) ==
    /\ page = "relatedDetails"
    /\ loader = "batch"
    /\ pc[k] = "done"
    /\ body' = [body EXCEPT ![k] = raw]
    /\ batchPromises' = [batchPromises EXCEPT ![k] = Fulfilled(Null)]
    /\ AfterRelatedItem(IF RelatedUsable(raw)
                        THEN Append(artworks, RelatedRecord(raw))
                        ELSE artworks)

\* artwork-detail.js:395-397: makeApiCall or response.json() of the ID at
\* position k throws; the loop catches
RelatedItemThrows(k) ==
    /\ page = "relatedDetails"
    /\ loader = "batch"
    /\ \/ pc[k] = "failed" /\ UNCHANGED body
       \/ pc[k] = "done" /\ body' = [body EXCEPT ![k] = ParseError]
    /\ batchPromises' = [batchPromises EXCEPT ![k] = Fulfilled(Null)]
    /\ AfterRelatedItem(artworks)

\* artwork-detail.js:404, 383, 407: the delay is over; the next ID, or the return
RelatedDelayFires ==
    /\ page = "relatedDetails"
    /\ loader = "delay"
    /\ delayWake <= now
    /\ IF chunkStart + 1 < Len(objectIds)
       THEN RelatedBegin(chunkStart + 2)
       ELSE /\ loader' = "returned"
            /\ UNCHANGED <<now, tracker, batch, pc, retryCount, wake, err, lastResp,
                           lastRespAt, gets, waits, chunkStart, batchPromises, body,
                           chunksRun>>
    /\ UNCHANGED <<objectIds, artworks, delayWake, delaysRun, settledAt>>
    /\ UNCHANGED pageVars

\* ------------------------------------------------------ the operations
\* mutant of DetailPageCatch: the error leaves loadArtworkDetails
DetailPageRethrow(error) ==
    /\ page' = "rejected"
    /\ UNCHANGED <<now, tracker, batch, pc, retryCount, wake, err, lastResp,
                   lastRespAt, gets, waits>>
    /\ UNCHANGED <<loaderVars, op, data, curatedCalls, dom, currentArtworks, sessionVars>>

\* artwork-detail.js:176-191: the catch block of loadArtworkDetails
DetailPageCatch(error) ==
    /\ detailView' = ShowError(detailView, DetailErrorMessage(error))
    /\ page' = "done"
    /\ UNCHANGED <<now, tracker, batch, pc, retryCount, wake, err, lastResp,
                   lastRespAt, gets, waits>>
    /\ UNCHANGED <<loaderVars, op, data, curatedCalls, dom, currentArtworks, requests>>

\* mutant of RelatedCatch: the failure is reported like one of the artwork itself
RelatedCatchShowsError(error) ==
    /\ detailView' = ShowError(detailView, DetailErrorMessage(error))
    /\ page' = "done"
    /\ UNCHANGED <<now, tracker, batch, pc, retryCount, wake, err, lastResp,
                   lastRespAt, gets, waits>>
    /\ UNCHANGED <<loaderVars, op, data, curatedCalls, dom, currentArtworks, requests>>

\* artwork-detail.js:375-378: the catch block of loadRelatedArtworks
RelatedCatch(error) ==
    /\ detailView' = [detailView EXCEPT !.relatedShown = FALSE]
    /\ page' = "done"
    /\ UNCHANGED <<now, tracker, batch, pc, retryCount, wake, err, lastResp,
                   lastRespAt, gets, waits>>
    /\ UNCHANGED <<loaderVars, op, data, curatedCalls, dom, currentArtworks, requests>>

\* artwork-detail.js:54-59, 163-168: the page is opened with ?id=...;
\* loadArtworkDetails(objectId) runs to its first await
OpenDetailPage ==
    /\ page = "idle"
    /\ op' = "detail"
    /\ page' = "object"
    /\ detailView' = ShowLoading(detailView)
    /\ BeginAttempt(0, 0)
    /\ UNCHANGED <<now, rateLimitResetTime, isRateLimited, batch, err>>
    /\ UNCHANGED <<loaderVars, data, curatedCalls, dom, currentArtworks, requests>>

\* the request of the object call or of the related search, while awaited
ObjectSlot == IF page \in {"object", "related"} THEN DOMAIN pc ELSE {}

\* artwork-detail.js:168-175, 196-286, 357-363: response.json() gives d.  With an
\* objectID the fields are populated, loadRelatedArtworks runs to its first
\* await and the loading panel is hidden; without, the operation throws.
ObjectJsonResolves(d) ==
    /\ page = "object"
    /\ \E k \in ObjectSlot : pc[k] = "done"
    /\ IF HasObjectId(d)
       THEN /\ data' = d
            /\ detailView' = HideLoading([detailView EXCEPT !.artwork = d])
            /\ page' = "related"
            /\ BeginAttempt(0, 0)
            /\ UNCHANGED <<now, rateLimitResetTime, isRateLimited, batch, err>>
            /\ UNCHANGED <<loaderVars, op, curatedCalls, dom, currentArtworks, requests>>
       ELSE DetailPageCatch(ArtworkNotFound)

\* artwork-detail.js:166-168, 176: makeApiCall or response.json() throws
ObjectThrows ==
    /\ page = "object"
    /\ \E k \in ObjectSlot :
          \/ pc[k] = "failed" /\ DetailPageCatch(err[k])
          \/ pc[k] = "done" /\ DetailPageCatch(ParseError)
    /\ UNCHANGED data

\* artwork-detail.js:363-373: response.json() of the related search gives d.
\* With IDs, the current one is filtered out and a sample of 6 is loaded.
RelatedJsonResolves(d) ==
    /\ page = "related"
    /\ \E k \in ObjectSlot : pc[k] = "done"
    /\ IF HasIds(d)
       THEN /\ \E ids \in GetRandomSample(Without(d.objectIDs.items, data.objectID.v),
                                         maxRelated) :
                  CallRelatedLoader(ids)
            /\ page' = "relatedDetails"
            /\ UNCHANGED <<op, data, curatedCalls, dom, currentArtworks, sessionVars>>
       ELSE /\ page' = "done"
            /\ UNCHANGED <<now, tracker, batch, pc, retryCount, wake, err, lastResp,
                           lastRespAt, gets, waits>>
            /\ UNCHANGED <<loaderVars, op, data, curatedCalls, dom, currentArtworks,
                           sessionVars>>

\* artwork-detail.js:362-363, 375: makeApiCall or response.json() throws
RelatedThrows ==
    /\ page = "related"
    /\ \E k \in ObjectSlot :
          \/ pc[k] = "failed" /\ RelatedCatch(err[k])
          \/ pc[k] = "done" /\ RelatedCatch(ParseError)

\* artwork-detail.js:369-370, 410-431: the loader has returned; the related
\* artworks are shown, or the section is hidden when there is none
RelatedReturns ==
    /\ page = "relatedDetails"
    /\ loader = "returned"
    /\ detailView' = [detailView EXCEPT !.related = artworks,
                                        !.relatedShown = IF artworks = <<>> THEN FALSE ELSE @]
    /\ page' = "done"
    /\ UNCHANGED <<now, tracker, batch, pc, retryCount, wake, err, lastResp, lastRespAt,
                   gets, waits>>
    /\ UNCHANGED <<loaderVars, op, data, curatedCalls, dom, currentArtworks, requests>>

\* the error responses the request at slot k may be given
DetailPageErrors(k) ==
    IF page = "object" THEN ObjectErrors
    ELSE IF page = "related" THEN ListingErrors
         ELSE IF /\ page = "relatedDetails"
                 /\ k \in DOMAIN objectIds
                 /\ objectIds[k] \in UnreliableIds
              THEN LoaderErrors
              ELSE {}

DetailInit == PageInit

DetailNext ==
    \/ OpenDetailPage
    \/ \E k \in DOMAIN pc : PreWaitFires(k)
    \/ \E k \in ObjectSlot : FetchThrows(k)
    \/ \E k \in ObjectSlot, h \in LoaderRetryAfter : Receive429(k, h)
    \/ \E k \in DOMAIN pc : \E e \in DetailPageErrors(k) : ReceiveHttpError(k, e[1], e[2], NoHeader)
    \/ \E k \in DOMAIN pc : ReceiveOk(k, NoHeader)
    \/ \E k \in DOMAIN pc : RateWaitFires(k)
    \/ \E k \in DOMAIN pc : NetWaitFires(k)
    \/ \E d \in ObjectBodies : ObjectJsonResolves(d)
    \/ ObjectThrows
    \/ \E d \in RelatedBodies : RelatedJsonResolves(d)
    \/ RelatedThrows
    \/ \E k \in DetailSlots : \E raw \in RelatedItemBodies(objectIds[k]) :
          RelatedItemResolves(k, raw)
    \/ \E k \in DetailSlots : RelatedItemThrows(k)
    \/ RelatedDelayFires
    \/ RelatedReturns
    \/ AdvanceToTimer

SpecDetail == DetailInit /\ [][DetailNext]_vars

\* The same page load with a related search that finds more artworks than are
\* shown, the current one among them.
ManyRelated ==
    { [objectIDs |-> Arr(<<IdAt(2), CurrentId>>
                           \o [j \in 1 .. maxRelated |-> IdAt(batchSize + 2 + j)])] }

RelatedNext ==
    \/ DetailNext
    \/ \E d \in ManyRelated : RelatedJsonResolves(d)

SpecRelated == DetailInit /\ [][RelatedNext]_vars

\* artwork-detail.js:535-541: showLoading, hideLoading and showError are exported
\* as window.ArtworkDetail and can be called at any moment, in any order.
CallShowLoading ==
    /\ detailView' = ShowLoading(detailView)
    /\ UNCHANGED <<now, tracker, batch, pc, retryCount, wake, err, lastResp, lastRespAt,
                   gets, waits>>
    /\ UNCHANGED <<loaderVars, op, page, data, curatedCalls, dom, currentArtworks, requests>>

CallHideLoading ==
    /\ detailView' = HideLoading(detailView)
    /\ UNCHANGED <<now, tracker, batch, pc, retryCount, wake, err, lastResp, lastRespAt,
                   gets, waits>>
    /\ UNCHANGED <<loaderVars, op, page, data, curatedCalls, dom, currentArtworks, requests>>

CallShowError(message) ==
    /\ detailView' = ShowError(detailView, message)
    /\ UNCHANGED <<now, tracker, batch, pc, retryCount, wake, err, lastResp, lastRespAt,
                   gets, waits>>
    /\ UNCHANGED <<loaderVars, op, page, data, curatedCalls, dom, currentArtworks, requests>>

PanelsNext ==
    \/ DetailNext
    \/ CallShowLoading
    \/ CallHideLoading
    \/ CallShowError("No artwork ID provided")

SpecPanels == DetailInit /\ [][PanelsNext]_vars

\* -------------------------------------------- every top-level operation
\* One page load, on either page: browse, search (with the fallback and the
\* loader behind them), or the detail page with its related artworks.
OpsNext ==
    \/ op # "detail" /\ PageNext
    \/ op \in {"none", "detail"} /\ DetailNext

SpecOps == PageInit /\ [][OpsNext]_vars

\* ------------------------------------------- one operation after another
\* script.js:400-424, 455-464: once an operation has ended, the user's next
\* submission of the search box (or clearing it) starts the next one on the same
\* page; the gallery, the clock and the tracker are as the last one left them.
NextOperation ==
    /\ page = "done"
    /\ apiCallCount < MaxCalls
    /\ op' = "none"
    /\ page' = "idle"
    /\ data' = [tag |-> "none"]
    /\ batch' = {0}
    /\ pc' = [k \in {0} |-> "idle"]
    /\ retryCount' = [k \in {0} |-> 0]
    /\ wake' = [k \in {0} |-> 0]
    /\ err' = [k \in {0} |-> NoError]
    /\ lastResp' = [k \in {0} |-> NoResp]
    /\ lastRespAt' = [k \in {0} |-> 0]
    /\ gets' = [k \in {0} |-> 0]
    /\ waits' = [k \in {0} |-> [pre |-> 0, rate |-> 0, net |-> 0]]
    /\ objectIds' = <<>>
    /\ loader' = "idle"
    /\ chunkStart' = 0
    /\ batchPromises' = <<>>
    /\ body' = <<>>
    /\ artworks' = <<>>
    /\ delayWake' = 0
    /\ chunksRun' = 0
    /\ delaysRun' = 0
    /\ settledAt' = 0
    /\ UNCHANGED <<now, tracker, curatedCalls, dom, currentArtworks, sessionVars>>

\* The page is loaded with a fresh tracker; operations follow one another.
SessionInit == PageInit /\ isRateLimited = FALSE

SessionNext ==
    \/ PageNext
    \/ NextOperation

SpecSession == SessionInit /\ [][SessionNext]_vars

\* ------------------------------------------------- the quota headers
\* One page load, on either page, with a server that sends X-RateLimit-Remaining
\* on the responses of the listing, search, object and related calls.
HeaderSlot == IF page \in {"listing", "object", "related"} THEN DOMAIN pc ELSE {}

QuotaNext ==
    \/ OpsNext
    \/ \E k \in HeaderSlot, h \in QuotaValues : ReceiveOk(k, h)
    \/ \E k \in HeaderSlot, e \in OutageErrors, h \in QuotaValues :
          ReceiveHttpError(k, e[1], e[2], h)

SpecQuota == PageInit /\ [][QuotaNext]_vars

\* ================================================================ claims
\* The fetch of request r settles in this step.
Settles(r) == pc[r] = "fetching" /\ pc'[r] # "fetching"
\* Request r observes a 429 in this step.
Observes429(r) ==
    Settles(r) /\ lastResp'[r].kind = "response" /\ lastResp'[r].status = 429
\* Request r begins an attempt in this step (first try or retry).
Begins(r) == pc[r] \in {"idle", "rateWait", "netWait"} /\ pc'[r] # pc[r]
\* 1000 * 2^a for a = 0..3, written out
Backoff(a) == CASE a = 0 -> 1000 [] a = 1 -> 2000 [] a = 2 -> 4000 [] a = 3 -> 8000

\* C1: one logical request issues at most maxRetries + 1 = 4 GETs, whatever mix
\* of 429, transport error, HTTP error and 2xx its attempts meet.
C1_AtMostFourGets == \A r \in Reqs : gets[r] <= 4

\* a request that failed on its fourth GET after both kinds of retry
C1_Witness ==
    \E r \in Reqs :
        pc[r] = "failed" /\ gets[r] = 4 /\ waits[r].net >= 1 /\ waits[r].rate >= 1

\* C2: a response that is neither 429 nor 2xx fails the call at once with the
\* HTTP error of that status: no wait, no further GET.
C2_HttpErrorNotRetried ==
    \A r \in Reqs :
        (lastResp[r].kind = "response" /\ lastResp[r].status \notin {200, 429})
            => /\ pc[r] = "failed"
               /\ err[r] = HttpError(lastResp[r].status, lastResp[r].statusText)

\* C3: a 429 with Retry-After: N sets rateLimitResetTime to exactly now + N*1000
\* (now = the time of observation), on every attempt; here N = 2.
C3_RetryAfterSetsResetTime ==
    [][\A r \in Reqs :
         (Observes429(r) /\ lastResp'[r].retryAfter = <<"2">>)
            => rateLimitResetTime' = Num(now + 2000)]_vars

\* a retry (not the first attempt) has just observed a 429 with Retry-After: 2
C3_Witness ==
    \E r \in Reqs :
        /\ lastResp[r] = Resp429(<<"2">>)
        /\ retryCount[r] >= 1
        /\ pc[r] = "rateWait"
        /\ now = lastRespAt[r]
        /\ rateLimitResetTime = Num(now + 2000)

\* C4: a 429 without Retry-After on the attempt with retry count a sets
\* rateLimitResetTime to now + 1000 * 2^a: +1000, +2000, +4000, +8000.
C4_BackoffSetsResetTime ==
    [][\A r \in Reqs :
         (Observes429(r) /\ lastResp'[r].retryAfter = NoHeader)
            => rateLimitResetTime' = Num(now + Backoff(retryCount[r]))]_vars

\* the last attempt (a = 3) has observed a 429 without Retry-After
C4_Witness ==
    \E r \in Reqs :
        /\ lastResp[r] = Resp429(NoHeader)
        /\ retryCount[r] = 3
        /\ now = lastRespAt[r]
        /\ rateLimitResetTime = Num(now + 8000)

\* C5: a 429 whose Retry-After does not parse as a positive integer ("0", a
\* negative number, an HTTP date) sets rateLimitResetTime by exponential backoff,
\* as if the header were absent.
C5_BadRetryAfterUsesBackoff ==
    [][\A r \in Reqs :
         (Observes429(r)
            /\ lastResp'[r].retryAfter \in {<<"0">>, <<"-", "1">>, <<"W", "e", "d">>})
            => rateLimitResetTime' = Num(now + Backoff(retryCount[r]))]_vars

\* C6: every transition that sets isRateLimited to true sets rateLimitResetTime
\* to a non-null timestamp strictly later than the time of the transition.
C6_ResetTimeInFuture ==
    [][(\E r \in Reqs : Observes429(r))
          => /\ isRateLimited'
             /\ IsNum(rateLimitResetTime')
             /\ rateLimitResetTime'.v > now]_vars

\* C7: for a single request, a 429 followed after the retry wait by a 200 leaves
\* isRateLimited false when makeApiCall returns the response.
C7_ClearedWhenReturned ==
    \A r \in Reqs : (batch = {r} /\ pc[r] = "done") => ~isRateLimited

\* C8: for a single request, the GET of the retry after a 429 with Retry-After: 2
\* is issued exactly 2000 ms after the 429 was observed: the wait after the 429
\* is the only one, the check before the request adds none.
C8_RetryAfterExactWait ==
    [][\A r \in Reqs :
         (batch = {r} /\ pc[r] = "rateWait" /\ pc'[r] # "rateWait"
            /\ lastResp[r] = Resp429(<<"2">>))
            => /\ pc'[r] = "fetching"
               /\ gets'[r] = gets[r] + 1
               /\ now' = lastRespAt[r] + 2000
               /\ waits'[r] = waits[r]]_vars

\* the single request is fetching again, 2000 ms after its first attempt got
\* the 429 at page load
C8_Witness ==
    /\ batch = {1}
    /\ pc[1] = "fetching"
    /\ gets[1] = 2
    /\ waits[1] = [pre |-> 0, rate |-> 1, net |-> 0]
    /\ rateLimitResetTime = Num(StartTime + 2000)
    /\ now = StartTime + 2000

\* C9: an attempt that begins while isRateLimited and now < rateLimitResetTime
\* issues no GET before the reset time it saw at entry; when that wait ends it
\* sets isRateLimited to false and issues the GET.  An attempt that begins with
\* isRateLimited false or now >= rateLimitResetTime issues its GET at once.
C9_PreRequestWait ==
    [][\A r \in Reqs :
         /\ (Begins(r) /\ isRateLimited /\ IsNum(rateLimitResetTime)
               /\ now < rateLimitResetTime.v)
               => /\ pc'[r] = "preWait"
                  /\ wake'[r] = rateLimitResetTime.v
                  /\ gets'[r] = gets[r]
         /\ (pc[r] = "preWait" /\ pc'[r] = "preWait")
               => (wake'[r] = wake[r] /\ gets'[r] = gets[r])
         /\ (pc[r] = "preWait" /\ pc'[r] # "preWait")
               => /\ now >= wake[r]
                  /\ ~isRateLimited'
                  /\ pc'[r] = "fetching"
                  /\ gets'[r] = gets[r] + 1
         /\ (Begins(r)
               /\ (~isRateLimited
                     \/ (IsNum(rateLimitResetTime) /\ now >= rateLimitResetTime.v)))
               => /\ pc'[r] = "fetching"
                  /\ gets'[r] = gets[r] + 1
                  /\ waits'[r] = waits[r]]_vars

\* a request that waited before its GET has cleared the flag and is fetching
C9_Witness ==
    \E r \in Reqs :
        /\ pc[r] = "fetching"
        /\ waits[r].pre >= 1
        /\ ~isRateLimited
        /\ IsNum(rateLimitResetTime)
        /\ now >= rateLimitResetTime.v

\* C10: a 429 with retryCount < 3 makes the request wait until the reset time
\* just set and retry with retryCount + 1; a 429 with retryCount = 3 fails it
\* with 'Rate limited: Maximum retries exceeded', without a wait or a GET.  A
\* request that saw only 429s has failed after exactly 4 GETs and 3 such waits
\* (and no other wait when it ran alone).
C10_RateLimitRetryBudget ==
    [][\A r \in Reqs :
         /\ (Observes429(r) /\ retryCount[r] < 3)
               => /\ pc'[r] = "rateWait"
                  /\ wake'[r] = IF IsNum(rateLimitResetTime') /\ rateLimitResetTime'.v > now
                                THEN rateLimitResetTime'.v
                                ELSE now
         /\ (pc[r] = "rateWait" /\ pc'[r] # "rateWait")
               => (now >= wake[r] /\ retryCount'[r] = retryCount[r] + 1)
         /\ (Observes429(r) /\ retryCount[r] = 3)
               => /\ pc'[r] = "failed"
                  /\ err'[r] = [name |-> "Error",
                                message |-> <<"Rate limited", "Maximum retries exceeded">>]
                  /\ gets'[r] = gets[r]
                  /\ waits'[r] = waits[r]
         /\ (pc'[r] = "failed" /\ Includes(err'[r].message, <<"Rate limited">>)
               /\ waits'[r].net = 0)
               => /\ gets'[r] = 4
                  /\ waits'[r].rate = 3
                  /\ (batch = {r} => waits'[r].pre = 0)]_vars

\* a request that saw four 429s and failed
C10_Witness ==
    \E r \in Reqs :
        /\ pc[r] = "failed"
        /\ err[r] = RateLimitError
        /\ gets[r] = 4
        /\ waits[r].rate = 3
        /\ waits[r].net = 0

\* C11: a transport error on an attempt with retry count a < 3 makes the request
\* wait 1000 * 2^a ms (1000, 2000, 4000) and retry with a + 1; with retry count 3
\* the transport error itself is surfaced.  A request whose every attempt hit a
\* transport error has issued exactly 4 GETs and failed with that error.
C11_TransportErrorRetryBudget ==
    [][\A r \in Reqs :
         /\ (Settles(r) /\ lastResp'[r] = FetchThrew /\ retryCount[r] < 3)
               => /\ pc'[r] = "netWait"
                  /\ wake'[r] = now + Backoff(retryCount[r])
                  /\ gets'[r] = gets[r]
         /\ (pc[r] = "netWait" /\ pc'[r] # "netWait")
               => (now = wake[r] /\ retryCount'[r] = retryCount[r] + 1)
         /\ (Settles(r) /\ lastResp'[r] = FetchThrew /\ retryCount[r] = 3)
               => /\ pc'[r] = "failed"
                  /\ err'[r] = [name |-> "TypeError",
                                message |-> <<"Failed", "to", "fetch">>]
                  /\ gets'[r] = gets[r]
                  /\ waits'[r] = waits[r]
         /\ (pc'[r] = "failed" /\ err'[r].name = "TypeError")
               => /\ gets'[r] = 4
                  /\ (waits'[r].rate = 0 => waits'[r].net = 3)]_vars

\* a request whose four attempts all threw has failed with the TypeError
C11_Witness ==
    \E r \in Reqs :
        /\ pc[r] = "failed"
        /\ err[r] = TypeErrorFailedToFetch
        /\ lastResp[r] = FetchThrew
        /\ gets[r] = 4
        /\ waits[r] = [pre |-> 0, rate |-> 0, net |-> 3]

\* The loop starts a chunk in this step.
StartsChunk == chunksRun' = chunksRun + 1
\* The makeApiCall chain and the callback of the ID at position k are finished.
Finished(k) ==
    pc[k] \in {"done", "failed"} /\ batchPromises[k].state \in {"fulfilled", "rejected"}

\* C12: loadArtworkDetails works through its chunks strictly in sequence.  A GET
\* is only ever issued for an ID of the current chunk, and the chunk after the
\* first k is started only when every request of chunk k is finished (its
\* retries and backoff waits included) and interBatchDelay ms have passed
\* since chunk k settled; the new chunk is the next batchSize positions.
C12_ChunksInSequence ==
    [][/\ \A k \in DOMAIN gets' :
            (k \notin DOMAIN gets \/ gets'[k] # gets[k]) => k \in batch'
       /\ (StartsChunk /\ chunksRun >= 1)
            => /\ \A k \in batch : Finished(k)
               /\ now >= settledAt + interBatchDelay
               /\ batch' = {k \in DOMAIN objectIds :
                              chunkStart + batchSize < k /\ k <= chunkStart + 2 * batchSize}
               /\ batch' \cap batch = {}
               /\ \A k \in batch' : pc'[k] \in {"fetching", "preWait"}]_vars
\* the second chunk is in flight; the first settled after two backoff waits
C12_Witness ==
    /\ loader = "batch"
    /\ chunksRun = 2
    /\ ~isRateLimited
    /\ settledAt = StartTime + BackoffDelay(0) + BackoffDelay(1)
    /\ now >= settledAt + interBatchDelay
    /\ \E k \in batch : pc[k] = "fetching"

\* ceil(n / b) for naturals n and b > 0
CeilDiv(n, b) == (n + b - 1) \div b
\* the number of chunks of the list handed to the loader
NumChunks == CeilDiv(Len(objectIds), batchSize)

\* C13: for n IDs and batch size b the loader runs exactly ceil(n / b) chunks
\* and max(0, ceil(n / b) - 1) inter-batch delays: there is no delay after the
\* last chunk, none at all when n <= b, and no chunk at all when n = 0.
C13_ChunkAndDelayCount ==
    /\ chunksRun <= NumChunks
    /\ delaysRun <= chunksRun
    /\ delaysRun < NumChunks \/ NumChunks = 0
    /\ loader = "delay" => (delaysRun = chunksRun /\ chunksRun < NumChunks)
    /\ loader = "batch" => delaysRun = chunksRun - 1
    /\ Len(objectIds) <= batchSize => delaysRun = 0
    /\ Len(objectIds) = 0 => chunksRun = 0
    /\ loader = "returned"
          => /\ chunksRun = NumChunks
             /\ delaysRun = (IF NumChunks = 0 THEN 0 ELSE NumChunks - 1)
\* twelve IDs were loaded in four chunks with three delays
C13_Witness ==
    /\ loader = "returned"
    /\ Len(objectIds) = 4 * batchSize
    /\ chunksRun = 4
    /\ delaysRun = 3

\* The ID at position k of the current chunk failed: its request was rejected
\* (rate-limit exhaustion, HTTP error, transport error), its body could not be
\* parsed, or its raw record is unusable.
Failing(k) ==
    \/ pc[k] = "failed"
    \/ body[k] = ParseError
    \/ body[k] \notin {NoBody, ParseError} /\ ~Usable(body[k])
\* A retry of the request at position k is held back by the bound on fetch calls.
OutOfCalls ==
    \E k \in Waiting :
        /\ wake[k] <= now
        /\ apiCallCount >= MaxCalls
        /\ pc[k] = "preWait" \/ ~ShouldWait(isRateLimited, rateLimitResetTime, now)

\* C14: loadArtworkDetails never fails.  Whatever the outcome of an ID
\* (rate-limit exhaustion, HTTP error, transport error, unparsable body,
\* unusable record), its promise is fulfilled with null and it adds nothing to
\* the result; no promise is rejected and the call never throws; the other
\* requests of the chunk and the later chunks run on: the loader only comes
\* to rest when it has returned its list of records (or where the bound on
\* fetch calls holds back a retry).
C14_LoaderNeverFails ==
    /\ loader \in {"idle", "batch", "delay", "returned"}
    /\ \A k \in DOMAIN batchPromises :
          /\ batchPromises[k].state \in {"pending", "fulfilled"}
          /\ (Failing(k) /\ (pc[k] = "failed" => batchPromises[k] # Pending))
                => batchPromises[k] = Fulfilled(Null)
          /\ Failing(k) => \A j \in DOMAIN artworks : artworks[j].id # Num(objectIds[k])
    /\ \A j \in DOMAIN artworks : artworks[j] # Null
    /\ (~ENABLED LoaderNext) => (loader = "returned" \/ OutOfCalls)
\* the call has returned the record of one ID; the request of the other ID of
\* its chunk had exhausted its rate-limit retries
C14_Witness ==
    /\ loader = "returned"
    /\ Len(objectIds) = 2
    /\ \E k \in DOMAIN pc : pc[k] = "failed" /\ err[k] = RateLimitError
    /\ Len(artworks) = 1

\* The fetch of the ID at position k succeeded and its raw record is usable.
Loaded(k) == pc[k] = "done" /\ body[k] \notin {NoBody, ParseError} /\ Usable(body[k])
\* the records of the loaded IDs among positions lo .. hi, in input order
RECURSIVE RecordsOf(_, _)
RecordsOf(lo, hi) ==
    IF lo > hi THEN <<>>
    ELSE (IF Loaded(lo) THEN <<Normalized(body[lo])>> ELSE <<>>) \o RecordsOf(lo + 1, hi)
\* the position in the input list of the ID of a record
PositionOf(record) == CHOOSE k \in DOMAIN objectIds : Num(objectIds[k]) = record.id

\* C15: the list returned by loadArtworkDetails(ids) holds exactly one record
\* for each ID whose fetch succeeded with a usable raw record, and nothing
\* else.  The list starts empty and changes only when a chunk settles, by the
\* records of the loaded IDs of that chunk, in input order, put at its end: the
\* records of an earlier chunk precede those of a later one, no ID has two
\* records, and the list is never longer than the input.
C15_ResultIsLoadedRecordsInOrder ==
    /\ [][/\ (loader = "idle" /\ loader' # "idle") => artworks' = <<>>
          /\ (loader = "batch" /\ loader' # "batch")
                => artworks' = artworks \o RecordsOf(chunkStart + 1, chunkStart + Cardinality(batch))
          /\ (loader # "idle" /\ loader' = loader) => artworks' = artworks
          /\ (loader = "delay" /\ loader' # "delay") => artworks' = artworks]_vars
    /\ [](/\ Len(artworks) <= Len(objectIds)
          /\ \A j \in DOMAIN artworks :
                /\ \E k \in DOMAIN objectIds : Num(objectIds[k]) = artworks[j].id
                /\ PositionOf(artworks[j]) <= chunkStart + batchSize
                /\ \A h \in DOMAIN artworks :
                      h < j => PositionOf(artworks[h]) < PositionOf(artworks[j])
          /\ (loader = "returned" /\ chunksRun = 1)
                => artworks = RecordsOf(1, Len(objectIds)))
\* ids of length 3, the second answered with 404: the records of the first
\* and the third are returned, in that order
C15_Witness ==
    /\ loader = "returned"
    /\ Len(objectIds) = 3
    /\ pc[2] = "failed" /\ err[2] = HttpError(404, <<"Not", "Found">>)
    /\ artworks = <<Normalized(FullRecord(objectIds[1])), Normalized(FullRecord(objectIds[3]))>>

\* a property that is absent or the empty string
Blank(x) == x = Undefined \/ x = Str("")
\* the raw record and the settled result of the single ID of SpecNorm
RawOfOne == body[1]
ResultOfOne == batchPromises[1].value

\* C16: a raw record is discarded (its callback yields null and the returned
\* list has no record of it) if and only if its title or its primaryImage is
\* absent or empty; a record with both present and non-empty is kept.
C16_DiscardedIffNoTitleOrImage ==
    /\ batchPromises[1].state = "fulfilled"
          => (ResultOfOne = Null <=> (Blank(RawOfOne.title) \/ Blank(RawOfOne.primaryImage)))
    /\ loader = "returned"
          => IF Blank(RawOfOne.title) \/ Blank(RawOfOne.primaryImage)
             THEN artworks = <<>>
             ELSE Len(artworks) = 1 /\ artworks[1].title = RawOfOne.title
\* a record with an image and an empty title was dropped from the result
C16_Witness ==
    /\ loader = "returned"
    /\ RawOfOne.title = Str("")
    /\ RawOfOne.primaryImage = Str("primaryImage")
    /\ ResultOfOne = Null
    /\ artworks = <<>>

\* C17: for every kept raw record the normalized record has artist =
\* artistDisplayName, or 'Unknown Artist' when that is absent or empty;
\* department (`location`) = department, or 'Metropolitan Museum' when absent
\* or empty; image = primaryImageSmall when present and non-empty, else
\* primaryImage; culture, date (objectDate) and medium copied unchanged, and
\* left unset when absent.
C17_NormalizedFields ==
    (batchPromises[1].state = "fulfilled" /\ ResultOfOne # Null)
      => /\ ResultOfOne.artist = (IF Blank(RawOfOne.artistDisplayName)
                                  THEN Str("Unknown Artist")
                                  ELSE RawOfOne.artistDisplayName)
         /\ ResultOfOne.location = (IF Blank(RawOfOne.department)
                                    THEN Str("Metropolitan Museum")
                                    ELSE RawOfOne.department)
         /\ ResultOfOne.image = (IF Blank(RawOfOne.primaryImageSmall)
                                 THEN RawOfOne.primaryImage
                                 ELSE RawOfOne.primaryImageSmall)
         /\ ResultOfOne.culture = RawOfOne.culture
         /\ ResultOfOne.date = RawOfOne.objectDate
         /\ ResultOfOne.medium = RawOfOne.medium
         /\ ResultOfOne.title = RawOfOne.title
         /\ ResultOfOne.id = Num(objectIds[1])
\* a kept record without artist, with an empty department and culture unset
C17_Witness ==
    /\ loader = "returned"
    /\ RawOfOne.artistDisplayName = Undefined
    /\ RawOfOne.department = Str("")
    /\ RawOfOne.primaryImageSmall = Str("primaryImageSmall")
    /\ RawOfOne.culture = Undefined
    /\ Len(artworks) = 1
    /\ artworks[1].artist = Str("Unknown Artist")
    /\ artworks[1].location = Str("Metropolitan Museum")
    /\ artworks[1].image = Str("primaryImageSmall")
    /\ artworks[1].culture = Undefined

\* The listing or search call has succeeded and its body has been parsed.
ListingParsed == data \in ListingBodies
\* a parsed body without object IDs: objectIDs is null or an empty array
NoIds(d) == d.objectIDs = Null \/ d.objectIDs = Arr(<<>>)
\* The operation leaves its listing step in this step.
LeavesListing == page = "listing" /\ page' # "listing"
\* loadCuratedArtworks is called in this step: the loader is started on the 12
\* curated IDs in their order, and the first chunk is requested.
FallbackStarts ==
    /\ curatedCalls' = curatedCalls + 1
    /\ page' = "curated"
    /\ objectIds' = curatedIds
    /\ Len(objectIds') = 12
    /\ loader' = "batch"
    /\ batch' = 1 .. batchSize
    /\ \A k \in batch' : pc'[k] \in {"fetching", "preWait"}

CuratedIdSet == {curatedIds[j] : j \in DOMAIN curatedIds}

\* C19: searchArtworks never invokes the fallback.  A search that succeeds with
\* null or zero objectIDs ends with the no-results message shown, no error
\* message and no detail request; a search whose call fails or whose body
\* cannot be parsed ends with one error message and no further request; in
\* no state of a search has loadCuratedArtworks been called or a curated ID
\* been handed to the loader, and the end states are terminal.
C19_SearchNeverFallsBack ==
    op = "search" =>
      /\ curatedCalls = 0
      /\ page # "curated"
      /\ \A k \in DOMAIN objectIds : objectIds[k] \notin CuratedIdSet
      /\ (ListingParsed /\ NoIds(data))
            => /\ page = "done"
               /\ dom = [EmptyGallery EXCEPT !.skeletons = FALSE, !.noResults = 1]
               /\ loader = "idle" /\ chunksRun = 0
               /\ DOMAIN pc = {0} /\ apiCallCount = gets[0]
      /\ (page = "done" /\ ~ListingParsed)
            => /\ Len(dom.errors) = 1
               /\ dom.errors[1] \in {SearchRateLimitMessage, SearchFailedMessage}
               /\ dom.noResults = 0 /\ dom.cards = <<>>
               /\ loader = "idle" /\ chunksRun = 0
               /\ DOMAIN pc = {0} /\ apiCallCount = gets[0]
      /\ page = "done" => ~ENABLED PageNext
\* a search answered with an empty array has ended with the no-results message
C19_Witness ==
    /\ op = "search"
    /\ data = [objectIDs |-> Arr(<<>>)]
    /\ page = "done"
    /\ dom.noResults = 1
    /\ dom.errors = <<>>
    /\ curatedCalls = 0

\* C20: on the browse path, whenever the listing call fails with an error
\* other than rate-limit exhaustion (an HTTP error that is not a 429, or a
\* transport error after the retry budget), loadRandomArtworks runs
\* loadArtworkDetails on the 12 curated IDs.
C20_FallbackOnListingFailure ==
    [][(/\ LeavesListing
        /\ op = "browse"
        /\ \E k \in DOMAIN pc : pc[k] = "failed" /\ err[k] # RateLimitError)
          => FallbackStarts]_vars

\* The operation ends in this step in the RateLimited state: its rate-limit
\* message is added, the fallback is not called and no request is issued.
RateLimitMessageOf(o) ==
    IF o = "browse" THEN BrowseRateLimitMessage ELSE SearchRateLimitMessage
EndsRateLimited ==
    /\ page' = "done"
    /\ dom'.errors = Append(dom.errors, RateLimitMessageOf(op))
    /\ curatedCalls' = curatedCalls
    /\ apiCallCount' = apiCallCount
    /\ loader' = "idle"

\* C21: a browse or search request ends in the RateLimited state if and only if
\* makeApiCall rejected the listing or search call with the rate-limit error;
\* an HTTP error or a transport error never ends there, whatever its status text.
C21_RateLimitedIffExhausted ==
    [][LeavesListing
          => (EndsRateLimited
                <=> \E k \in DOMAIN pc : pc[k] = "failed" /\ err[k] = RateLimitError)]_vars

\* C22: when the listing call fails and the fallback runs, the browse request
\* ends with at least one card displayed or with an error message shown, also
\* when every detail request for a curated ID fails.
C22_GalleryNeverLeftEmpty ==
    (op = "browse" /\ page = "done" /\ curatedCalls > 0)
        => (Len(dom.cards) > 0 \/ dom.errors # <<>>)

\* The terminal states of a request, read off the gallery.
Success == Len(dom.cards) > 0 /\ dom.noResults = 0 /\ dom.errors = <<>>
NoResults == dom.cards = <<>> /\ dom.noResults = 1 /\ dom.errors = <<>>
RateLimited ==
    dom.cards = <<>> /\ dom.noResults = 0 /\ dom.errors = <<RateLimitMessageOf(op)>>
Error ==
    /\ dom.cards = <<>>
    /\ dom.noResults = 0
    /\ Len(dom.errors) = 1
    /\ dom.errors[1] # RateLimitMessageOf(op)
TerminalStates == {<<"Success", Success>>, <<"NoResults", NoResults>>,
                   <<"RateLimited", RateLimited>>, <<"Error", Error>>}

\* C23: a request that has ended is in exactly one of Success (one or more
\* cards), NoResults, RateLimited, Error, and what displayArtworks received
\* was not the empty list.
C23_EndsInOneTerminalState ==
    page = "done"
        => /\ Cardinality({t \in TerminalStates : t[2]}) = 1
           /\ (dom.errors = <<>> /\ dom.noResults = 0) => Len(currentArtworks) > 0

\* C24: once every request has displayed its result, the result set on display
\* (currentArtworks) is that of the request started last, whatever the order
\* in which the requests ended.
C24_LatestRequestWins ==
    (Len(requests) >= 2 /\ \A g \in DOMAIN requests : requests[g].state = "displayed")
        => currentArtworks = requests[Len(requests)].result

\* A GET is issued in this step.
IssuesGet == apiCallCount' > apiCallCount
\* The reset times set by the 429s observed so far that are still known: the
\* one in the tracker, and the one each request waiting after its 429 waits for.
ObservedResetTimes ==
    {rateLimitResetTime} \cup {Num(wake[r]) : r \in {q \in DOMAIN pc : pc[q] = "rateWait"}}

\* C25: whatever the interleaving of the makeApiCall invocations in flight, no
\* GET is issued at a time at which the reset time set by an observed 429 still
\* lies in the future.
C25_NoGetBeforeResetTime ==
    [][IssuesGet => \A t \in ObservedResetTimes : ~JsLt(Num(now), t)]_vars

\* The detail page's loadArtworkDetails ends in this step.
ObjectCallEnds == page = "object" /\ page' = "done"
\* The kind of failure the object call of the detail page has met.
FailureKind ==
    LET k == CHOOSE q \in DOMAIN pc : TRUE IN
    IF pc[k] # "failed" THEN "other"
    ELSE IF err[k] = RateLimitError THEN "rateLimit"
    ELSE IF lastResp[k].kind = "response"
         THEN IF lastResp[k].status = 404 THEN "notFound" ELSE "http"
         ELSE "other"
\* The message the detail page is to show for a kind of failure.
MessageFor(kind) ==
    CASE kind = "rateLimit" -> "API rate limit exceeded. Please wait a moment and try again."
      [] kind = "notFound" -> "This artwork was not found in the museum's collection."
      [] kind = "http" -> "The museum's API is temporarily unavailable. Please try again later."
      [] kind = "other" -> "Failed to load artwork details."

\* C29: on the detail page the error message is determined by the kind of the
\* failure: rate-limit exhaustion, HTTP 404, any other HTTP status, anything
\* else; the not-found message is shown for HTTP 404 only.
C29_MessageByFailureKind ==
    [][ObjectCallEnds
          => /\ detailView'.error
             /\ detailView'.message = MessageFor(FailureKind)]_vars

\* The listing, search or single-object call of the operation has failed and
\* the operation resumes in this step.
CallFailureHandled ==
    /\ page \in {"listing", "object"}
    /\ page' # page
    /\ \E k \in DOMAIN pc : pc[k] = "failed"
\* A message is put before the user in this step, and the loading state ends.
MessageShown ==
    IF op = "detail"
    THEN /\ detailView'.error /\ ~detailView'.loading
         /\ detailView'.message # ""
    ELSE /\ Len(dom'.errors) = Len(dom.errors) + 1
         /\ ~dom'.skeletons
\* No operation and no loader has thrown, and the page only rests where its
\* operation has ended (or where the bound on fetch calls holds back a retry).
NoOperationRejects ==
    /\ page # "rejected"
    /\ loader # "rejected"
    /\ (~ENABLED OpsNext) => (page = "done" \/ OutOfCalls)

\* C26 (as stated): no top-level operation ever rejects, and a failure of the
\* listing, search or single-object call always ends with a message shown to
\* the user.
C26_FailureAlwaysShowsMessage ==
    /\ []NoOperationRejects
    /\ [][CallFailureHandled => MessageShown]_vars

\* C26 (amended): no top-level operation ever rejects; a failure of the search
\* call or of the single-object call always ends with a message shown to the
\* user; a failure of the browse listing call ends with the rate-limit message
\* or, without any message, with the start of the fallback.
C26_FailureShowsMessageOrFallsBack ==
    /\ []NoOperationRejects
    /\ [][CallFailureHandled
            => \/ MessageShown
               \/ op = "browse" /\ FallbackStarts /\ dom' = dom]_vars

\* a browse whose listing call failed has ended with the 12 curated cards and
\* without any message
C26_Witness ==
    /\ op = "browse"
    /\ page = "done"
    /\ data = [tag |-> "none"]
    /\ curatedCalls = 1
    /\ Len(dom.cards) = 12
    /\ dom.errors = <<>>

\* The requests whose fetch is started in this step.
FetchStarted == {r \in DOMAIN pc' : pc'[r] = "fetching" /\ (r \notin DOMAIN pc \/ pc[r] # "fetching")}
\* gets[1] + ... + gets[n] over the requests
RECURSIVE SumGets(_)
SumGets(rs) ==
    IF rs = {} THEN 0
    ELSE LET r == CHOOSE q \in rs : TRUE IN gets[r] + SumGets(rs \ {r})

\* C27: apiCallCount goes up by exactly 1 with every GET that makeApiCall
\* issues, first tries and retries alike, and changes in no other step: it
\* always equals the number of GETs issued so far and never decreases, however
\* the requests in flight interleave.
C27_CallCountCountsGets ==
    /\ [](apiCallCount = SumGets(Reqs))
    /\ [][/\ apiCallCount' = apiCallCount + Cardinality(FetchStarted)
          /\ Cardinality(FetchStarted) <= 1
          /\ apiCallCount' >= apiCallCount]_vars

\* two overlapping requests have issued five GETs between them: first tries,
\* a retry after a 429, a retry after a transport error and a GET after a
\* pre-request wait
C27_Witness ==
    /\ apiCallCount = 5
    /\ batch = Reqs
    /\ \A r \in Reqs : gets[r] >= 2
    /\ \E r \in Reqs : waits[r].rate >= 1
    /\ \E r \in Reqs : waits[r].net >= 1
    /\ \E r \in Reqs : waits[r].pre >= 1

\* The response that request r received in this step carries a remaining
\* quota below 10.
QuotaIsLow(r) ==
    LET h == lastResp'[r].remaining
    IN  h # NoHeader /\ IsNum(parseInt(h)) /\ parseInt(h).v < 10
\* The low-quota advisory is emitted in this step, for request r.
AdvisoryEmitted(r) ==
    /\ dom'.quotaWarnings = dom.quotaWarnings + 1
    /\ dom'.apiWarning = lastResp'[r].remaining
NoAdvisory == dom'.quotaWarnings = dom.quotaWarnings /\ dom'.apiWarning = dom.apiWarning
ReceivesNon429(r) ==
    /\ Settles(r)
    /\ lastResp'[r].kind = "response"
    /\ lastResp'[r].status # 429

\* C28: every response that is not a 429 and carries X-RateLimit-Remaining
\* below 10 makes the executor emit the low-quota advisory; with 10 or more,
\* or without the header, none is emitted. The advisory leaves the control flow
\* alone: a 2xx response is returned and the request issues no further GET.
C28_LowQuotaAdvisory ==
    [][\A r \in DOMAIN pc :
         ReceivesNon429(r) =>
            /\ IF QuotaIsLow(r) THEN AdvisoryEmitted(r) ELSE NoAdvisory
            /\ lastResp'[r].status = 200
                  => /\ pc'[r] = "done"
                     /\ err'[r] = NoError
                     /\ apiCallCount' = apiCallCount]_vars

\* The pre-request wait of request r completes in this step.
PreWaitCompletes(r) == pc[r] = "preWait" /\ r \in DOMAIN pc' /\ pc'[r] = "fetching"
\* Request r receives something else than a 429 in this step: a transport
\* error, an HTTP error or a 2xx response.
SettlesWithout429(r) ==
    /\ Settles(r)
    /\ lastResp'[r].kind = "threw" \/ lastResp'[r].status # 429
\* A step of an operation or of the loader outside makeApiCall: no request
\* moves, or the requests are replaced by those of the next call.
OutsideMakeApiCall == \A r \in DOMAIN pc : r \in DOMAIN pc' => pc'[r] = pc[r]

\* C30: the tracker starts as (false, null, 0) and only makeApiCall writes it.
\* isRateLimited turns true only when a 429 is observed and false only when a
\* pre-request wait completes; a transport error, an HTTP error other than 429,
\* a 2xx response and every step of loadArtworkDetails, searchArtworks,
\* loadRandomArtworks and the display functions leave isRateLimited and
\* rateLimitResetTime as they are.
C30_TrackerWrittenOnlyByMakeApiCall ==
    /\ [](apiCallCount = 0 => isRateLimited = FALSE /\ rateLimitResetTime = Null)
    /\ [][/\ (~isRateLimited /\ isRateLimited') => \E r \in DOMAIN pc : Observes429(r)
          /\ (isRateLimited /\ ~isRateLimited') => \E r \in DOMAIN pc : PreWaitCompletes(r)
          /\ rateLimitResetTime' # rateLimitResetTime => \E r \in DOMAIN pc : Observes429(r)
          /\ (\E r \in DOMAIN pc : SettlesWithout429(r))
                => UNCHANGED <<isRateLimited, rateLimitResetTime>>
          /\ (OutsideMakeApiCall /\ DOMAIN pc' = DOMAIN pc) => UNCHANGED tracker
          /\ DOMAIN pc' # DOMAIN pc => UNCHANGED <<isRateLimited, rateLimitResetTime>>]_vars

\* the flag was set by a 429 and cleared by a pre-request wait of the next
\* operation, which then ran to its end
C30_Witness ==
    /\ ~isRateLimited
    /\ rateLimitResetTime # Null
    /\ page = "done"
    /\ op = "search"
    /\ Len(dom.errors) >= 1
    /\ dom.noResults >= 1

\* the slots a request of one operation can take
Slots == 0 .. MaxIds
\* The makeApiCall at slot k has been called and has neither returned nor thrown.
CallRunning(k) == k \in DOMAIN pc /\ pc[k] \in {"preWait", "fetching", "rateWait", "netWait"}
\* that call has returned its response or has thrown
CallEnded(k) == k \in DOMAIN pc /\ pc[k] \in {"done", "failed"}
\* A browse or search request has been started and is loading.
Loading == page \in {"listing", "details", "curated"}
\* The request has left Loading through displayArtworks, showNoResults or
\* showErrorMessage.
LeftLoading ==
    /\ page = "done"
    /\ ~dom.skeletons

\* C31: with every GET settling and every timer firing, every makeApiCall
\* returns a response or fails, every loadArtworkDetails returns, and every
\* browse or search request that was started leaves Loading with the skeletons
\* hidden.
C31_EverythingTerminates ==
    /\ \A k \in Slots : CallRunning(k) ~> CallEnded(k)
    /\ (loader \in {"batch", "delay"}) ~> (loader = "returned")
    /\ Loading ~> LeftLoading

\* a browse request ended after retries of its listing call and all four
\* chunks of the loader
C31_Witness ==
    /\ op = "browse"
    /\ LeftLoading
    /\ loader = "returned"
    /\ chunksRun = 4
    /\ delaysRun = 3
    /\ apiCallCount > 13

\* The reset time set by an earlier 429 is still in the future.
ResetPending == IsNum(rateLimitResetTime) /\ now < rateLimitResetTime.v

\* C32: while the reset time set by a 429 is still in the future, a later 429
\* of a concurrent request never moves rateLimitResetTime to an earlier time.
C32_ResetTimeNeverMovesBack ==
    [][ResetPending =>
          /\ IsNum(rateLimitResetTime')
          /\ rateLimitResetTime'.v >= rateLimitResetTime.v]_vars

\* the detail requests in flight: called, and neither returned nor thrown
InFlight == {k \in DOMAIN pc : CallRunning(k)}
\* the batch size of the script whose loader is running
BatchLimit == IF op = "plain" THEN 4 ELSE 3

\* C33: at any moment of one loadArtworkDetails call, at most batchSize of its
\* detail requests are in flight (retries and backoff waits included): 3 in the
\* script with makeApiCall, 4 in the earlier script.  When a chunk is started,
\* no request of the chunk before is still in flight.
C33_AtMostBatchSizeInFlight ==
    /\ [](Cardinality(InFlight) <= BatchLimit)
    /\ [][StartsChunk => (InFlight = {} /\ Cardinality(InFlight') <= BatchLimit')]_vars

\* the earlier script has four requests in flight in its second chunk
C33_Witness ==
    /\ op = "plain"
    /\ Cardinality(InFlight) = 4
    /\ chunksRun = 2

\* the script with makeApiCall has three requests in flight, one of them in
\* its backoff wait after a 429
C33_WitnessRateLimited ==
    /\ op = "none"
    /\ Cardinality(InFlight) = 3
    /\ \E k \in InFlight : pc[k] = "rateWait"

\* min(12, n) for a listing of n IDs
ExpectedCount == IF Len(data.objectIDs.items) < 12 THEN Len(data.objectIDs.items) ELSE 12

\* C34: one browse or search request asks for the details of at most 12 IDs
\* and displays at most 12 records.  Search takes the first min(12, n) IDs of
\* the response in response order; browse takes min(12, n) IDs from distinct
\* positions of the listing; the fallback takes exactly the 12 curated IDs, and
\* only one of the lists is loaded per request.
C34_AtMostTwelve ==
    /\ Len(objectIds) <= 12
    /\ Len(dom.cards) <= 12
    /\ chunksRun <= 4
    /\ (page \in {"details", "done"} /\ op = "search" /\ objectIds # <<>>)
          => /\ Len(objectIds) = ExpectedCount
             /\ \A j \in DOMAIN objectIds : objectIds[j] = data.objectIDs.items[j]
    /\ (page \in {"details", "done"} /\ op = "browse" /\ curatedCalls = 0 /\ objectIds # <<>>)
          => /\ Len(objectIds) = ExpectedCount
             /\ \A j \in DOMAIN objectIds :
                   \E i \in DOMAIN data.objectIDs.items : objectIds[j] = data.objectIDs.items[i]
             /\ \A a, b \in DOMAIN objectIds : a # b => objectIds[a] # objectIds[b]
    /\ curatedCalls <= 1
    /\ curatedCalls = 1
          => /\ op = "browse"
             /\ Len(objectIds) = 12
             /\ objectIds = curatedIds

\* a search answered with more than 12 IDs has displayed the records of the
\* first 12
C34_Witness ==
    /\ op = "search"
    /\ page = "done"
    /\ Len(dom.errors) = 0
    /\ HasIds(data)
    /\ Len(data.objectIDs.items) > 12
    /\ Len(dom.cards) = 12
    /\ \A j \in 1 .. 12 : dom.cards[j].id = Num(data.objectIDs.items[j])

\* a browse answered with more than 12 IDs has displayed 12 of them, not the
\* first 12
C34_WitnessBrowse ==
    /\ op = "browse"
    /\ page = "done"
    /\ curatedCalls = 0
    /\ Len(dom.errors) = 0
    /\ Len(dom.cards) = 12
    /\ dom.cards[1].id # Num(data.objectIDs.items[1])

\* The artwork fields of the detail page have been populated.
Populated == detailView.artwork # Null
\* The main view shows the artwork: neither the loading nor the error panel.
MainViewShown == detailView.detail /\ ~detailView.loading /\ ~detailView.error
\* The related search fails in this step, or the request of a related ID does.
RelatedSearchFails == page = "related" /\ page' = "done" /\ \E k \in DOMAIN pc : pc[k] = "failed"
RelatedItemFails ==
    /\ page = "relatedDetails"
    /\ loader = "batch"
    /\ loader' # "batch"
    /\ \E k \in DOMAIN pc : pc[k] = "failed"

\* C35: once the artwork is populated, no failure while its related artworks
\* are loaded (search failure, rate-limit exhaustion, failure of one ID) brings
\* up the error panel or changes the populated fields; a failed search only
\* hides the related section and a failed ID is only left out.
C35_RelatedFailuresLeaveMainView ==
    /\ [](Populated => MainViewShown /\ detailView.message = "")
    /\ [][/\ Populated => detailView'.artwork = detailView.artwork
          /\ RelatedSearchFails
                => detailView' = [detailView EXCEPT !.relatedShown = FALSE]
          /\ RelatedItemFails
                => /\ artworks' = artworks
                   /\ detailView' = detailView
                   /\ loader' \in {"delay", "returned"}]_vars

\* the related search has exhausted its retries on 429s; the artwork is shown
\* without the related section
C35_Witness ==
    /\ page = "done"
    /\ Populated
    /\ MainViewShown
    /\ ~detailView.relatedShown
    /\ \E k \in DOMAIN pc : err[k] = RateLimitError

\* loadRelatedArtworkDetails issues the request of its next ID in this step.
NextRelatedRequest == page = "relatedDetails" /\ StartsChunk

\* C36: loadRelatedArtworkDetails issues its requests one at a time and in
\* input order (the next only when the one before has settled), issues none
\* once it holds 6 records, returns at most 6 records, and none of them is
\* the record of the artwork the page shows.
C36_RelatedOneAtATime ==
    /\ [](op = "detail" =>
            /\ Cardinality(InFlight) <= 1
            /\ chunksRun <= 6
            /\ Len(artworks) <= 6
            /\ Len(detailView.related) <= 6
            /\ \A j \in DOMAIN artworks : artworks[j].objectID # detailView.artwork.objectID
            /\ \A j \in DOMAIN detailView.related :
                  detailView.related[j].objectID # detailView.artwork.objectID)
    /\ [][NextRelatedRequest =>
            /\ \A k \in DOMAIN pc : Finished(k)
            /\ chunkStart' = chunkStart + 1
            /\ batch' = {chunkStart + 2}
            /\ Len(artworks) < 6]_vars

\* six related artworks are shown, loaded by six requests, from a search
\* result that held the current artwork among eight
C36_Witness ==
    /\ page = "done"
    /\ chunksRun = 6
    /\ Len(detailView.related) = 6
    /\ detailView.artwork.objectID = Num(CurrentId)
    /\ detailView.related[1].objectID = Num(IdAt(2))

\* the number of panels of the detail page that are displayed
PanelsVisible ==
    (IF detailView.loading THEN 1 ELSE 0) + (IF detailView.detail THEN 1 ELSE 0)
        + (IF detailView.error THEN 1 ELSE 0)

\* C37: on the detail page exactly one of the three panels (loading, artwork
\* detail, error) is displayed, after any sequence of showLoading, hideLoading
\* and showError and after any run of loadArtworkDetails.
C37_ExactlyOnePanel == PanelsVisible = 1

\* a string with a character that is not a blank
NonBlank(str) == \E i \in DOMAIN str : str[i] # " "
\* the requests started in this step
StartedNow == SubSeq(requests', Len(requests) + 1, Len(requests'))
StartsExactly(kind, query) ==
    /\ Len(requests') = Len(requests) + 1
    /\ StartedNow[1].kind = kind
    /\ StartedNow[1].query = query
    /\ StartedNow[1].state = "loading"

\* C38: the page load starts exactly one request: searchArtworks with the
\* value of the URL's search parameter when that value is non-empty,
\* loadRandomArtworks when the parameter is absent or empty; handleSearch starts
\* exactly one request: searchArtworks with the trimmed query when the search
\* box holds a non-blank string, loadRandomArtworks otherwise.
C38_ExactlyOneRequestStarted ==
    [][/\ \A search \in UrlParams :
            DOMContentLoaded(search)
               => IF search # Null /\ Len(search.v) > 0
                  THEN StartsExactly("search", search.v)
                  ELSE StartsExactly("browse", <<>>)
       /\ \A input \in Inputs :
            (op = "loaded" /\ HandleSearch(input))
               => IF NonBlank(input)
                  THEN /\ StartsExactly("search", StartedNow[1].query)
                       /\ NonBlank(StartedNow[1].query)
                  ELSE StartsExactly("browse", <<>>)]_vars
\* the page was loaded with a search parameter, and the user then searched
\* with a blank box
C38_Witness ==
    /\ op = "loaded"
    /\ Len(requests) = 2
    /\ requests[1].kind = "search"
    /\ requests[2].kind = "browse"
\* the page was loaded without a search parameter, and the user then searched
C38_WitnessBrowse ==
    /\ op = "loaded"
    /\ Len(requests) = 2
    /\ requests[1].kind = "browse"
    /\ requests[2].kind = "search"

====
